---- MODULE Spec2Model ----
(***************************************************************************)
(* Interface lowering and type descriptor synthesis of the compiler        *)
(* (compiler/interface.go, kept in src/src/os/os_test.go from line 371),   *)
(* together with the Kind numbering of the runtime reflect package         *)
(* (src/loader/goroot.go from line 315).                                   *)
(*                                                                         *)
(* Source types (go/types) are records tagged by k:                        *)
(*   Basic(kind)  Named(pkg, name)  Pointer(elem)  Slice(elem)             *)
(*   Chan(dir, elem)  Array(len, elem)  Map(key, elem)                     *)
(*   Signature(params, results, variadic)  Struct(fields)                  *)
(*   Interface(methods)                                                    *)
(* Two source types are identical exactly when their records are equal.    *)
(***************************************************************************)
EXTENDS Integers, Sequences, FiniteSets, TLC

VARIABLES
    globals,    \* the globals of the LLVM module, in emission order
    functions,  \* the functions of the LLVM module, in emission order
    stack,      \* the active getTypeCode calls, innermost first
    pending,    \* the top-level operation waiting for its getTypeCode call
    returned,   \* the (type, address) of every getTypeCode call that returned, in order
    heap,       \* the heap slots allocated by the pointer pack
    itf,        \* the interface value built by the last createMakeInterface
    ir,         \* the code emitted by the last createTypeAssert
    exec,       \* the execution of the emitted type assert
    ops,        \* number of top-level operations lowered so far
    pure,       \* inputs and outputs of the pure functions (SpecPure)
    invoke,     \* the thunk of the last lowered interface method call
    wrun,       \* the last execution of an interface invoke wrapper
    failure,    \* the message of the panic that ended the compilation, or ""
    links,      \* the run of listGorootMergeLinks: its inputs, its position, its map
    file,       \* the open file of the os tests: its offset and its last two calls
    cache,      \* the GOCACHE directory and the calls of GetCachedGoroot
    usb         \* the USB device: its state and the packets it sent

vars == <<globals, functions, stack, pending, returned, heap, itf, ir, exec, ops, pure,
          invoke, wrun, failure, links, file, cache, usb>>

\* The variables of the compiler.
moduleVars ==
    <<globals, functions, stack, pending, returned, heap, itf, ir, exec, ops,
      invoke, wrun, failure>>

\* The variables outside the compiler.
hostVars == <<links, file, cache, usb>>

compilerVars == <<moduleVars, hostVars>>

-----------------------------------------------------------------------------
(* Notation *)

\* The element of a singleton set.  The({e : x \in {v}}) is e with the local
\* variable x bound to the value v, computed once.
The(S) == CHOOSE x \in S : TRUE

-----------------------------------------------------------------------------
(* Bounds *)

\* Number of top-level lowering operations in one compilation.
MaxOps == 2

\* Array types of the universe have lengths 0..MaxArrayLen.
MaxArrayLen == 2

\* Concrete values put into interfaces are 1..MaxVal (0 is the zero value).
MaxVal == 1

-----------------------------------------------------------------------------
(* Strings *)

RECURSIVE Join(_, _)
\* strings.Join
Join(elems, sep) ==
    IF Len(elems) = 0 THEN ""
    ELSE IF Len(elems) = 1 THEN elems[1]
    ELSE elems[1] \o sep \o Join(Tail(elems), sep)

Digits == <<"0", "1", "2", "3", "4", "5", "6", "7", "8", "9">>

RECURSIVE FormatInt(_)
\* strconv.FormatInt(n, 10) for n >= 0
FormatInt(n) ==
    IF n < 10 THEN Digits[n + 1]
    ELSE FormatInt(n \div 10) \o Digits[(n % 10) + 1]

UpperLetters ==
    {"A", "B", "C", "D", "E", "F", "G", "H", "I", "J", "K", "L", "M", "N", "O",
     "P", "Q", "R", "S", "T", "U", "V", "W", "X", "Y", "Z"}

\* token.IsExported: the name starts with an upper case letter.
IsExported(name) == Len(name) > 0 /\ SubSeq(name, 1, 1) \in UpperLetters

\* The back quote character that getTypeCodeName puts around a struct tag
\* (a TLA+ string cannot hold it; no other string of the model holds "^").
BackQuote == "^"

-----------------------------------------------------------------------------
(* Bit operations on uint8 *)

RECURSIVE BitOr(_, _, _)
BitOr(a, b, n) ==
    IF n = 0 THEN 0
    ELSE (IF (a % 2 = 1) \/ (b % 2 = 1) THEN 1 ELSE 0)
         + 2 * BitOr(a \div 2, b \div 2, n - 1)

RECURSIVE BitAnd(_, _, _)
BitAnd(a, b, n) ==
    IF n = 0 THEN 0
    ELSE (IF (a % 2 = 1) /\ (b % 2 = 1) THEN 1 ELSE 0)
         + 2 * BitAnd(a \div 2, b \div 2, n - 1)

Or8(a, b) == BitOr(a % 256, b % 256, 8)
And8(a, b) == BitAnd(a % 256, b % 256, 8)

-----------------------------------------------------------------------------
(* Source types *)

BasicKinds ==
    <<"Bool", "Int", "Int8", "Int16", "Int32", "Int64", "Uint", "Uint8",
      "Uint16", "Uint32", "Uint64", "Uintptr", "Float32", "Float64",
      "Complex64", "Complex128", "String", "UnsafePointer">>

Basic(kind) == [k |-> "Basic", kind |-> kind]
Named(pkg, name) == [k |-> "Named", pkg |-> pkg, name |-> name]
Pointer(elem) == [k |-> "Pointer", elem |-> elem]
Slice(elem) == [k |-> "Slice", elem |-> elem]
Chan(dir, elem) == [k |-> "Chan", dir |-> dir, elem |-> elem]
Array(len, elem) == [k |-> "Array", len |-> len, elem |-> elem]
Map(key, elem) == [k |-> "Map", key |-> key, elem |-> elem]
Signature(params, results, variadic) ==
    [k |-> "Signature", params |-> params, results |-> results, variadic |-> variadic]
Field(name, typ, embedded, tag) ==
    [name |-> name, typ |-> typ, embedded |-> embedded, tag |-> tag]
Struct(fields) == [k |-> "Struct", fields |-> fields]
\* An interface method: the name, the package that declares it, the signature.
Method(name, pkg, sig) == [name |-> name, pkg |-> pkg, sig |-> sig]
Interface(methods) == [k |-> "Interface", methods |-> methods]

TInt == Basic("Int")
TInt32 == Basic("Int32")
TUint8 == Basic("Uint8")
TString == Basic("String")
TError == Named("", "error")

SigClose == Signature(<<>>, <<TError>>, FALSE)
SigRead == Signature(<<Slice(TUint8)>>, <<TInt, TError>>, FALSE)
SigString == Signature(<<>>, <<TString>>, FALSE)
SigNone == Signature(<<>>, <<>>, FALSE)

IfaceError == Interface(<<Method("Error", "", SigString)>>)
IfaceCloser == Interface(<<Method("Close", "io", SigClose)>>)
IfaceReader == Interface(<<Method("Read", "io", SigRead)>>)
IfaceReadCloser ==
    Interface(<<Method("Close", "io", SigClose), Method("Read", "io", SigRead)>>)

\* interface{Put(chan<- int)} and interface{Put(<-chan int)}
IfaceSink ==
    Interface(<<Method("Put", "main", Signature(<<Chan("SendOnly", TInt)>>, <<>>, FALSE))>>)
IfaceSource ==
    Interface(<<Method("Put", "main", Signature(<<Chan("RecvOnly", TInt)>>, <<>>, FALSE))>>)

TA == Named("main", "A")
TB == Named("main", "B")
TT == Named("main", "T")
TN == Named("main", "N")
TL == Named("main", "L")
TC == Named("main", "C")
TP == Named("main", "P")
TQ == Named("main", "Q")
\* A type of a kind that the type switches of the compiler do not list
\* (*types.Tuple), and two named types declared with it.
Tuple == [k |-> "Tuple"]
TU == Named("main", "U")
TV == Named("main", "V")
TReader == Named("io", "Reader")
TCloser == Named("io", "Closer")

StructXY ==
    Struct(<<Field("X", TInt, FALSE, ""), Field("y", TString, FALSE, "json:\"y\"")>>)

\* The declarations of the program being compiled:
\*   type A *B;  type B *A
\*   type T struct{X int; y string "json:\"y\""}
\*   type N int32;  type L struct{next *L};  type C chan int;  type P int64
\*   type error interface{Error() string}
\*   type io.Reader interface{Read([]byte) (int, error)}
\*   type io.Closer interface{Close() error}
NamedTypes == {TA, TB, TT, TN, TL, TC, TP, TError, TReader, TCloser}

\* (*types.Named).Underlying
NamedUnderlying(t) ==
    CASE t = TA -> Pointer(TB)
      [] t = TB -> Pointer(TA)
      [] t = TT -> StructXY
      [] t = TN -> TInt32
      [] t = TL -> Struct(<<Field("next", Pointer(TL), FALSE, "")>>)
      [] t = TC -> Chan("SendRecv", TInt)
      [] t = TP -> Basic("Int64")
      [] t = TQ -> TInt32
      [] t = TU -> Tuple
      [] t = TV -> Slice(Tuple)
      [] t = TError -> IfaceError
      [] t = TReader -> IfaceReader
      [] t = TCloser -> IfaceCloser

\* (types.Type).Underlying
Underlying(t) == IF t.k = "Named" THEN NamedUnderlying(t) ELSE t

\* The methods declared on the named types, in the order of their names:
\*   func (T) Close() error;  func (*T) Read([]byte) (int, error)
\*   func (N) String() string;  func (C) Close() error
\*   func (P) Log(int);  func (P) Scale(int, int) int
\*   func (Q) Run(), for which the program has no function
\* ptr tells whether the method is declared on the pointer receiver.
DeclaredMethods(t) ==
    CASE t = TT -> <<[name |-> "Close", pkg |-> "main", sig |-> SigClose, ptr |-> FALSE],
                     [name |-> "Read", pkg |-> "main", sig |-> SigRead, ptr |-> TRUE]>>
      [] t = TN -> <<[name |-> "String", pkg |-> "main", sig |-> SigString, ptr |-> FALSE]>>
      [] t = TC -> <<[name |-> "Close", pkg |-> "main", sig |-> SigClose, ptr |-> FALSE]>>
      [] t = TQ -> <<[name |-> "Run", pkg |-> "main", sig |-> SigNone, ptr |-> FALSE]>>
      [] t = TP -> <<[name |-> "Log", pkg |-> "main",
                      sig |-> Signature(<<TInt>>, <<>>, FALSE), ptr |-> FALSE],
                     [name |-> "Scale", pkg |-> "main",
                      sig |-> Signature(<<TInt, TInt>>, <<TInt>>, FALSE), ptr |-> FALSE]>>
      [] OTHER -> <<>>

ChanDirs == {"SendRecv", "SendOnly", "RecvOnly"}

BasicTypes == {Basic(BasicKinds[i]) : i \in 1..Len(BasicKinds)}

PointerTypes ==
    {Pointer(t) : t \in {TInt32, TA, TB, TT, TN, TL, Pointer(TInt32),
                         Chan("SendOnly", TInt), Chan("RecvOnly", TInt)}}

SliceTypes == {Slice(TUint8), Slice(TInt)}

ChanTypes == {Chan(d, e) : d \in ChanDirs, e \in {TInt, TT}}

ArrayTypes == {Array(n, e) : n \in 0..MaxArrayLen, e \in {TUint8, TInt32}}

MapTypes == {Map(TString, TInt), Map(TInt, TString)}

SignatureTypes ==
    {SigNone, SigClose, SigRead, SigString,
     Signature(<<TInt>>, <<>>, FALSE),
     Signature(<<TInt, TInt>>, <<>>, FALSE),
     Signature(<<Slice(TInt)>>, <<>>, FALSE),
     Signature(<<Slice(TInt)>>, <<>>, TRUE),
     Signature(<<TInt, Slice(TInt)>>, <<TInt>>, FALSE),
     Signature(<<TInt, Slice(TInt)>>, <<TInt>>, TRUE)}

StructTypes ==
    {StructXY,
     Struct(<<>>),
     Struct(<<Field("X", TInt, FALSE, "")>>),
     Struct(<<Field("X", TInt, FALSE, ""), Field("y", TString, FALSE, "")>>),
     Struct(<<Field("T", TT, TRUE, "")>>),
     Struct(<<Field("T", TT, FALSE, "")>>),
     Struct(<<Field("T", Pointer(TT), TRUE, "")>>)}

InterfaceTypes ==
    {Interface(<<>>), IfaceError, IfaceCloser, IfaceReader, IfaceReadCloser,
     Interface(<<Method("m", "main", SigNone)>>),
     Interface(<<Method("m", "io", SigNone)>>)}

\* The bounded universe of source types.
Types ==
    BasicTypes \cup NamedTypes \cup PointerTypes \cup SliceTypes \cup ChanTypes
    \cup ArrayTypes \cup MapTypes \cup SignatureTypes \cup StructTypes
    \cup InterfaceTypes

-----------------------------------------------------------------------------
(* Kind numbering *)

\* basicTypes: the type kinds of the basic types.
basicTypes ==
    [kind \in {BasicKinds[i] : i \in 1..Len(BasicKinds)} |->
        CASE kind = "Bool" -> 1
          [] kind = "Int" -> 2
          [] kind = "Int8" -> 3
          [] kind = "Int16" -> 4
          [] kind = "Int32" -> 5
          [] kind = "Int64" -> 6
          [] kind = "Uint" -> 7
          [] kind = "Uint8" -> 8
          [] kind = "Uint16" -> 9
          [] kind = "Uint32" -> 10
          [] kind = "Uint64" -> 11
          [] kind = "Uintptr" -> 12
          [] kind = "Float32" -> 13
          [] kind = "Float64" -> 14
          [] kind = "Complex64" -> 15
          [] kind = "Complex128" -> 16
          [] kind = "String" -> 17
          [] kind = "UnsafePointer" -> 18]

\* The Kind constants of the runtime reflect package (Invalid Kind = iota):
\* the position of a name in this list is its value.
ReflectKinds ==
    <<"Bool", "Int", "Int8", "Int16", "Int32", "Int64", "Uint", "Uint8",
      "Uint16", "Uint32", "Uint64", "Uintptr", "Float32", "Float64",
      "Complex64", "Complex128", "String", "UnsafePointer", "Chan",
      "Interface", "Pointer", "Slice", "Array", "Func", "Map", "Struct">>

\* The value of the reflect Kind constant with the given name.
Kind(name) == CHOOSE i \in 1..Len(ReflectKinds) : ReflectKinds[i] = name

\* flagNamed = 1 << (iota + 5)
flagNamed == 32

\* getTypeKind reaches the default case of its type switch:
\* panic("unknown type").
UnknownKind(t) ==
    Underlying(t).k \notin {"Basic", "Chan", "Interface", "Pointer", "Slice", "Array",
                            "Signature", "Map", "Struct"}

RECURSIVE UnknownType(_)
\* getTypeCodeName reaches the default case of its type switch, for t or for
\* a type it recurses into: panic("unknown type: " + t.String()).
UnknownType(t) ==
    CASE t.k \in {"Named", "Basic"} -> FALSE
      [] t.k \in {"Array", "Chan", "Pointer", "Slice"} -> UnknownType(t.elem)
      [] t.k = "Map" -> UnknownType(t.key) \/ UnknownType(t.elem)
      [] t.k = "Interface" ->
            \E i \in 1..Len(t.methods) : UnknownType(t.methods[i].sig)
      [] t.k = "Signature" ->
            \/ \E i \in 1..Len(t.params) : UnknownType(t.params[i])
            \/ \E i \in 1..Len(t.results) : UnknownType(t.results[i])
      [] t.k = "Struct" -> \E i \in 1..Len(t.fields) : UnknownType(t.fields[i].typ)
      [] OTHER -> TRUE

getTypeKind_WrongTable(t) ==
    LET u == Underlying(t) IN
    CASE u.k = "Basic" -> basicTypes[u.kind]
      [] u.k = "Chan" -> 19
      [] u.k = "Interface" -> 20
      [] u.k = "Pointer" -> 21
      [] u.k = "Slice" -> 22
      [] u.k = "Array" -> 23
      [] u.k = "Signature" -> 25
      [] u.k = "Map" -> 24
      [] u.k = "Struct" -> 26

\* getTypeKind returns the type kind for the given type, as defined by
\* reflect.Kind.
getTypeKind(t) ==
    The({CASE u.k = "Basic" -> basicTypes[u.kind]
           [] u.k = "Chan" -> 19
           [] u.k = "Interface" -> 20
           [] u.k = "Pointer" -> 21
           [] u.k = "Slice" -> 22
           [] u.k = "Array" -> 23
           [] u.k = "Signature" -> 24
           [] u.k = "Map" -> 25
           [] u.k = "Struct" -> 26
         : u \in {Underlying(t)}})

\* The metadata byte getTypeCode stores in the kind field of a descriptor.
MetaByte(typ) ==
    The({IF typ.k = "Named" THEN Or8(metabyte, 32) ELSE metabyte
         : metabyte \in {getTypeKind(typ)}})

-----------------------------------------------------------------------------
(* Type namer *)

basicTypeNames ==
    [kind \in {BasicKinds[i] : i \in 1..Len(BasicKinds)} |->
        CASE kind = "Bool" -> "bool"
          [] kind = "Int" -> "int"
          [] kind = "Int8" -> "int8"
          [] kind = "Int16" -> "int16"
          [] kind = "Int32" -> "int32"
          [] kind = "Int64" -> "int64"
          [] kind = "Uint" -> "uint"
          [] kind = "Uint8" -> "uint8"
          [] kind = "Uint16" -> "uint16"
          [] kind = "Uint32" -> "uint32"
          [] kind = "Uint64" -> "uint64"
          [] kind = "Uintptr" -> "uintptr"
          [] kind = "Float32" -> "float32"
          [] kind = "Float64" -> "float64"
          [] kind = "Complex64" -> "complex64"
          [] kind = "Complex128" -> "complex128"
          [] kind = "String" -> "string"
          [] kind = "UnsafePointer" -> "unsafe.Pointer"]

\* (*types.Named).String: the package path, a dot, the name of the type.
NamedString(t) == IF t.pkg = "" THEN t.name ELSE t.pkg \o "." \o t.name

RECURSIVE getTypeCodeName(_)
RECURSIVE TypeCodeNames(_)
RECURSIVE MethodCodeNames(_)
RECURSIVE FieldCodeNames(_)

\* getTypeCodeName of every type of a tuple of parameters or results.
TypeCodeNames(ts) ==
    IF Len(ts) = 0 THEN <<>>
    ELSE <<getTypeCodeName(Head(ts))>> \o TypeCodeNames(Tail(ts))

\* The methods[i] strings of the Interface case of getTypeCodeName.
MethodCodeNames(ms) ==
    IF Len(ms) = 0 THEN <<>>
    ELSE LET m == Head(ms)
             name == IF IsExported(m.name) THEN m.name ELSE m.pkg \o "." \o m.name
         IN <<name \o ":" \o getTypeCodeName(m.sig)>> \o MethodCodeNames(Tail(ms))

\* The elems[i] strings of the Struct case of getTypeCodeName.
FieldCodeNames(fs) ==
    IF Len(fs) = 0 THEN <<>>
    ELSE LET f == Head(fs) IN
         <<(IF f.embedded THEN "#" ELSE "") \o f.name \o ":" \o getTypeCodeName(f.typ)
           \o (IF f.tag # "" THEN BackQuote \o f.tag \o BackQuote ELSE "")>>
         \o FieldCodeNames(Tail(fs))

\* getTypeCodeName returns a name for this type that can be used in the
\* interface lowering pass to assign type codes.
getTypeCodeName(t) ==
    CASE t.k = "Named" -> "named:" \o NamedString(t)
      [] t.k = "Array" -> "array:" \o FormatInt(t.len) \o ":" \o getTypeCodeName(t.elem)
      [] t.k = "Basic" -> "basic:" \o basicTypeNames[t.kind]
      [] t.k = "Chan" -> "chan:" \o getTypeCodeName(t.elem)
      [] t.k = "Interface" ->
            "interface:" \o "{" \o Join(MethodCodeNames(t.methods), ",") \o "}"
      [] t.k = "Map" ->
            "map:" \o "{" \o getTypeCodeName(t.key) \o "," \o getTypeCodeName(t.elem) \o "}"
      [] t.k = "Pointer" -> "pointer:" \o getTypeCodeName(t.elem)
      [] t.k = "Signature" ->
            "func:" \o "{" \o Join(TypeCodeNames(t.params), ",") \o "}{"
                    \o Join(TypeCodeNames(t.results), ",") \o "}"
      [] t.k = "Slice" -> "slice:" \o getTypeCodeName(t.elem)
      [] t.k = "Struct" -> "struct:" \o "{" \o Join(FieldCodeNames(t.fields), ",") \o "}"

RECURSIVE typestring(_)
RECURSIVE signature(_)
RECURSIVE TypeStrings(_)
RECURSIVE MethodStrings(_)
RECURSIVE FieldStrings(_)

\* typestring of every type of a tuple of parameters or results.
TypeStrings(ts) ==
    IF Len(ts) = 0 THEN <<>>
    ELSE <<typestring(Head(ts))>> \o TypeStrings(Tail(ts))

\* The methods[i] strings of the Interface case of typestring.
MethodStrings(ms) ==
    IF Len(ms) = 0 THEN <<>>
    ELSE <<Head(ms).name \o signature(Head(ms).sig)>> \o MethodStrings(Tail(ms))

\* strconv.Quote for the tags of the universe: only the double quote is escaped.
Quote(tag) == IF tag = "json:\"y\"" THEN "\"json:\\\"y\\\"\"" ELSE "\"" \o tag \o "\""

\* The fields[i] strings of the Struct case of typestring.
FieldStrings(fs) ==
    IF Len(fs) = 0 THEN <<>>
    ELSE LET f == Head(fs) IN
         <<f.name \o " " \o typestring(f.typ)
           \o (IF f.tag # "" THEN " " \o Quote(f.tag) ELSE "")>>
         \o FieldStrings(Tail(fs))

\* Make a readable version of a function (pointer) signature.
signature(sig) ==
    (IF Len(sig.params) = 0 THEN "()"
     ELSE "(" \o Join(TypeStrings(sig.params), ", ") \o ")")
    \o (IF Len(sig.results) = 0 THEN ""
        ELSE IF Len(sig.results) = 1 THEN " " \o typestring(sig.results[1])
        ELSE " (" \o Join(TypeStrings(sig.results), ", ") \o ")")

\* typestring returns a stable (human-readable) type string for the given type
\* that can be used for interface equality checks.
typestring(t) ==
    CASE t.k = "Array" -> "[" \o FormatInt(t.len) \o "]" \o typestring(t.elem)
      [] t.k = "Basic" -> basicTypeNames[t.kind]
      [] t.k = "Chan" ->
            (CASE t.dir = "SendRecv" -> "chan (" \o typestring(t.elem) \o ")"
               [] t.dir = "SendOnly" -> "chan<- (" \o typestring(t.elem) \o ")"
               [] t.dir = "RecvOnly" -> "<-chan (" \o typestring(t.elem) \o ")")
      [] t.k = "Interface" -> "interface{" \o Join(MethodStrings(t.methods), ";") \o "}"
      [] t.k = "Map" -> "map[" \o typestring(t.key) \o "]" \o typestring(t.elem)
      [] t.k = "Named" -> NamedString(t)
      [] t.k = "Pointer" -> "*" \o typestring(t.elem)
      [] t.k = "Signature" -> "func" \o signature(t)
      [] t.k = "Slice" -> "[]" \o typestring(t.elem)
      [] t.k = "Struct" -> "struct{" \o Join(FieldStrings(t.fields), ";") \o "}"

\* methodSignature creates a readable version of a method signature (including
\* the function name, excluding the receiver name).
methodSignature(method) == method.name \o signature(method.sig)

\* getMethodSignatureName returns a unique name (that can be used as the name
\* of a global) for the given method.
getMethodSignatureName(method) ==
    IF IsExported(method.name)
    THEN "reflect/methods." \o methodSignature(method)
    ELSE method.pkg \o ".$methods." \o methodSignature(method)

\* (types.Type).String, used for the names of method sets: the qualified name
\* of a named type, a star in front of a pointer's element, and the go/types
\* spelling of the other types.
TypeString(t) ==
    CASE t.k = "Named" -> NamedString(t)
      [] t.k = "Pointer" /\ t.elem.k = "Named" -> "*" \o NamedString(t.elem)
      [] OTHER -> typestring(t)


-----------------------------------------------------------------------------
(* Method sets of the program (golang.org/x/tools/go/ssa) *)

\* The methods of a named type or of a pointer to one, in the order of their
\* names: the value receiver methods for T, all the methods for *T.
DirectMethodSet(typ) ==
    CASE typ.k = "Named" ->
            The({IF u.k = "Interface" THEN u.methods
                 ELSE SelectSeq(DeclaredMethods(typ), LAMBDA m : ~m.ptr)
                 : u \in {Underlying(typ)}})
      [] typ.k = "Pointer" /\ typ.elem.k = "Named"
            /\ Underlying(typ.elem).k \notin {"Interface", "Pointer"} ->
            DeclaredMethods(typ.elem)
      [] OTHER -> <<>>

\* The embedded fields of a struct type.
EmbeddedFields(typ) == SelectSeq(typ.fields, LAMBDA f : f.embedded)

\* The type whose declared methods make the method set of typ: typ itself,
\* or the type of the embedded field of a struct, or the pointer to the type
\* of the embedded field of the struct a pointer points to.
MethodSetOwner(typ) ==
    CASE typ.k = "Struct" ->
            The({IF e = <<>> THEN typ ELSE e[1].typ : e \in {EmbeddedFields(typ)}})
      [] typ.k = "Pointer" /\ typ.elem.k = "Struct" ->
            The({IF e = <<>> THEN typ
                 ELSE IF e[1].typ.k = "Pointer" THEN e[1].typ ELSE Pointer(e[1].typ)
                 : e \in {EmbeddedFields(typ.elem)}})
      [] OTHER -> typ

\* c.program.MethodSets.MethodSet(typ), as name, package and signature of
\* each method: the interface's methods, the declared methods, or the methods
\* promoted from the (at most one) embedded field of a struct.
MethodSet(typ) ==
    IF typ.k = "Interface" THEN typ.methods
    ELSE The({[i \in 1..Len(ms) |-> Method(ms[i].name, ms[i].pkg, ms[i].sig)]
              : ms \in {DirectMethodSet(MethodSetOwner(typ))}})

\* c.program.MethodValue(method): the function that implements a method of the
\* method set of typ; its receiver has type typ and its link name is
\* "(" typ ")." name.
MethodValue(typ, method) ==
    [linkName |-> "(" \o TypeString(typ) \o ")." \o method.name,
     recv |-> typ, sig |-> method.sig]

-----------------------------------------------------------------------------
(* The LLVM module *)

\* The null llvm.Value that NamedGlobal and NamedFunction return for a name
\* the module does not have.
Nil == [name |-> "", nil |-> TRUE]

IsNil(v) == "nil" \in DOMAIN v

\* The address of field idx of the global named g
\* (llvm.ConstGEP(type, global, 0, idx)); the global itself for idx = 0.
Addr(g, idx) == [g |-> g, idx |-> idx]

\* c.mod.NamedGlobal(name)
NamedGlobal(gs, name) ==
    IF \E i \in 1..Len(gs) : gs[i].name = name
    THEN gs[CHOOSE i \in 1..Len(gs) :
                gs[i].name = name /\ \A j \in 1..(i - 1) : gs[j].name # name]
    ELSE Nil

\* c.mod.NamedFunction(name)
NamedFunction(fs, name) ==
    IF \E i \in 1..Len(fs) : fs[i].name = name
    THEN fs[CHOOSE i \in 1..Len(fs) :
                fs[i].name = name /\ \A j \in 1..(i - 1) : fs[j].name # name]
    ELSE Nil

\* llvm.AddGlobal: a global without initializer, with the default (external)
\* linkage.  cls and typ are not part of the LLVM global: they record which
\* request created it.
NewGlobal(name, cls, typ, layout) ==
    [name |-> name, cls |-> cls, typ |-> typ, layout |-> layout,
     hasInit |-> FALSE, init |-> <<>>, linkage |-> "external",
     constant |-> FALSE, unnamedAddr |-> FALSE, align |-> 0]

\* The index of the first global with the given name.
GlobalIndex(gs, name) ==
    CHOOSE i \in 1..Len(gs) : gs[i].name = name /\ \A j \in 1..(i - 1) : gs[j].name # name

\* The size of a pointer (c.targetData.TypeAllocSize(c.i8ptrType)) in bytes.
PointerSize == 4

-----------------------------------------------------------------------------
(* Method-set materializer *)

getMethodSignature_NoLinkage(gs, method) ==
    The({IF IsNil(NamedGlobal(gs, globalName))
         THEN [globals |-> Append(gs,
                  [NewGlobal(globalName, "signature", method, <<"i8">>) EXCEPT
                      !.hasInit = TRUE, !.init = <<[int |-> 0]>>,
                      !.constant = TRUE, !.align = 1]),
               val |-> Addr(globalName, 0)]
         ELSE [globals |-> gs, val |-> Addr(globalName, 0)]
         : globalName \in {getMethodSignatureName(method)}})

\* getMethodSignature returns a global variable which is a reference to an
\* external *i8 indicating the signature of this method.
\* The result is the new list of globals and the global's address.
getMethodSignature(gs, method) ==
    The({IF IsNil(NamedGlobal(gs, globalName))
         THEN [globals |-> Append(gs,
                  [NewGlobal(globalName, "signature", method, <<"i8">>) EXCEPT
                      !.hasInit = TRUE, !.init = <<[int |-> 0]>>,
                      !.linkage = "linkonce_odr", !.constant = TRUE, !.align = 1]),
               val |-> Addr(globalName, 0)]
         ELSE [globals |-> gs, val |-> Addr(globalName, 0)]
         : globalName \in {getMethodSignatureName(method)}})

\* The link names of the methods for which c.getFunction has no function.
MissingFunctions == {"(main.Q).Run"}

\* c.getFunction(fn): the LLVM function of a concrete method, declared in the
\* module on first use; nothing for a method that has no function.
getFunction(fs, fn) ==
    IF fn.linkName \in MissingFunctions THEN fs
    ELSE IF IsNil(NamedFunction(fs, fn.linkName))
    THEN Append(fs, [name |-> fn.linkName, cls |-> "method", defined |-> FALSE,
                     recv |-> fn.recv, sig |-> fn.sig, linkage |-> "external",
                     unnamedAddr |-> FALSE, attrs |-> <<>>, body |-> <<>>])
    ELSE fs

\* len(expandedReceiverType) == 1 && receiverType.TypeKind() == llvm.PointerTypeKind:
\* the receiver is lowered to a single pointer word.
ReceiverIsPointer(recv) ==
    \/ Underlying(recv).k \in {"Pointer", "Chan", "Map"}
    \/ Underlying(recv) = Basic("UnsafePointer")

WrapperBody_ReversedParams(fn) ==
    <<[op |-> "unpack", param |-> 0, typ |-> fn.recv, dst |-> "receiverValue"],
      [op |-> "call", fn |-> fn.linkName,
       args |-> <<[reg |-> "receiverValue"]>>
                \o [i \in 1..Len(fn.sig.params) |-> [param |-> Len(fn.sig.params) + 1 - i]]],
      IF Len(fn.sig.results) = 0 THEN [op |-> "retvoid"] ELSE [op |-> "ret", src |-> "ret"]>>

\* The entry block of the wrapper of fn: the receiver is unpacked from
\* wrapper.Param(0), the function is called with the receiver and
\* wrapper.Params()[1:], and its result, if it has one, is returned.
WrapperBody(fn) ==
    <<[op |-> "unpack", param |-> 0, typ |-> fn.recv, dst |-> "receiverValue"],
      [op |-> "call", fn |-> fn.linkName,
       args |-> <<[reg |-> "receiverValue"]>>
                \o [i \in 1..Len(fn.sig.params) |-> [param |-> i]]],
      IF Len(fn.sig.results) = 0 THEN [op |-> "retvoid"] ELSE [op |-> "ret", src |-> "ret"]>>

getInterfaceInvokeWrapper_NoLookup(fs, fn) ==
    LET wrapperName == fn.linkName \o "$invoke"
    IN IF ReceiverIsPointer(fn.recv)
       THEN [functions |-> fs, val |-> fn.linkName]
       ELSE [functions |-> Append(fs,
                [name |-> wrapperName, cls |-> "wrapper", defined |-> TRUE,
                 recv |-> fn.recv, sig |-> fn.sig, linkage |-> "linkonce_odr",
                 unnamedAddr |-> TRUE, attrs |-> <<>>,
                 body |-> WrapperBody(fn)]),
             val |-> wrapperName]

\* getInterfaceInvokeWrapper returns a wrapper for the given method so it can
\* be invoked from an interface.  The result is the new list of functions and
\* the name of the function to put in the method set.
getInterfaceInvokeWrapper(fs, fn) ==
    LET wrapperName == fn.linkName \o "$invoke"
    IN IF ~IsNil(NamedFunction(fs, wrapperName))
       THEN [functions |-> fs, val |-> wrapperName]
       ELSE IF ReceiverIsPointer(fn.recv)
       THEN [functions |-> fs, val |-> fn.linkName]
       ELSE [functions |-> Append(fs,
                [name |-> wrapperName, cls |-> "wrapper", defined |-> TRUE,
                 recv |-> fn.recv, sig |-> fn.sig, linkage |-> "linkonce_odr",
                 unnamedAddr |-> TRUE, attrs |-> <<>>,
                 body |-> WrapperBody(fn)]),
             val |-> wrapperName]

RECURSIVE MethodSetLoop_Reversed(_, _, _, _)
MethodSetLoop_Reversed(m, typ, ms, i) ==
    IF i > Len(ms) THEN m
    ELSE LET method == ms[i]
             sg == getMethodSignature(m.globals, method)
             fn == MethodValue(typ, method)
             fs1 == getFunction(m.functions, fn)
             wr == getInterfaceInvokeWrapper(fs1, fn)
         IN MethodSetLoop_Reversed(
                [globals |-> sg.globals, functions |-> wr.functions,
                 signatures |-> Append(m.signatures, sg.val),
                 wrappers |-> <<wr.val>> \o m.wrappers, failure |-> ""],
                typ, ms, i + 1)

RECURSIVE MethodSetLoop_NoCheck(_, _, _, _)
MethodSetLoop_NoCheck(m, typ, ms, i) ==
    IF i > Len(ms) THEN m
    ELSE LET method == ms[i]
             sg == getMethodSignature(m.globals, method)
             fn == MethodValue(typ, method)
             fs1 == getFunction(m.functions, fn)
         IN MethodSetLoop_NoCheck(
                [globals |-> sg.globals, functions |-> fs1,
                 signatures |-> Append(m.signatures, sg.val),
                 wrappers |-> Append(m.wrappers, fn.linkName), failure |-> ""],
                typ, ms, i + 1)

RECURSIVE MethodSetLoop(_, _, _, _)
\* The loop of getTypeMethodSet over the methods ms[i..] of typ: it appends
\* the signature global of each method to signatures and its wrapper to
\* wrappers, and panics (failure) at a method that has no function.
MethodSetLoop(m, typ, ms, i) ==
    IF i > Len(ms) THEN m
    ELSE The({
           The({IF IsNil(NamedFunction(fs1, fn.linkName))
                THEN [globals |-> sg.globals, functions |-> fs1,
                      signatures |-> Append(m.signatures, sg.val),
                      wrappers |-> m.wrappers,
                      failure |-> "cannot find function: " \o fn.linkName]
                ELSE The({MethodSetLoop(
                            [globals |-> sg.globals, functions |-> wr.functions,
                             signatures |-> Append(m.signatures, sg.val),
                             wrappers |-> Append(m.wrappers, wr.val),
                             failure |-> ""],
                            typ, ms, i + 1)
                          : wr \in {getInterfaceInvokeWrapper(fs1, fn)}})
                : sg \in {getMethodSignature(m.globals, ms[i])},
                  fs1 \in {getFunction(m.functions, fn)}})
           : fn \in {MethodValue(typ, ms[i])}})

\* getTypeMethodSet returns a reference (GEP) to a global method set.
\* The result is the new globals and functions and the global's address, or
\* the message of the panic and the globals and functions added before it.
getTypeMethodSet(gs, fs, typ) ==
    The({
      IF IsNil(NamedGlobal(gs, globalName))
      THEN The({IF m.failure # ""
                THEN [globals |-> m.globals, functions |-> m.functions,
                      val |-> Addr("", 0), failure |-> m.failure]
                ELSE [globals |-> Append(m.globals,
                    [NewGlobal(globalName, "methodset", typ,
                               <<"count", "signatures", "wrappers">>) EXCEPT
                        !.hasInit = TRUE,
                        !.init = <<[int |-> Len(ms)], [arr |-> m.signatures],
                                   [fns |-> m.wrappers]>>,
                        !.constant = TRUE, !.unnamedAddr = TRUE,
                        !.linkage = "linkonce_odr"]),
                 functions |-> m.functions,
                 val |-> Addr(globalName, 0), failure |-> ""]
                : m \in {MethodSetLoop([globals |-> gs, functions |-> fs,
                                        signatures |-> <<>>, wrappers |-> <<>>,
                                        failure |-> ""],
                                       typ, ms, 1)}})
      ELSE [globals |-> gs, functions |-> fs, val |-> Addr(globalName, 0),
            failure |-> ""]
      : globalName \in {TypeString(typ) \o "$methodset"}, ms \in {MethodSet(typ)}})


-----------------------------------------------------------------------------
(* Descriptor synthesizer: getTypeCode *)

\* hasMethodSet of getTypeCode.
HasMethodSet_IgnoreInterface(typ) == Len(MethodSet(typ)) # 0

HasMethodSet(typ) ==
    Len(MethodSet(typ)) # 0 /\ Underlying(typ).k # "Interface"

\* globalName of getTypeCode.
DescriptorName(typ) == "reflect/types.type:" \o getTypeCodeName(typ)

TypeCodeGlobal_WrongPrefix(gs, typ) ==
    NamedGlobal(gs, "reflect/types.typeid:" \o getTypeCodeName(typ))

\* global := c.mod.NamedGlobal(globalName) of getTypeCode.
TypeCodeGlobal(gs, typ) == NamedGlobal(gs, DescriptorName(typ))

\* typeFieldTypes of getTypeCode: the names of the fields of the global.
TypeLayout(typ) ==
    (IF HasMethodSet(typ) THEN <<"methodSet">> ELSE <<>>) \o <<"kind">> \o
    CASE typ.k = "Basic" -> <<"ptrTo">>
      [] typ.k = "Named" -> <<"ptrTo", "underlying">>
      [] typ.k \in {"Chan", "Slice"} -> <<"ptrTo", "elementType">>
      [] typ.k = "Pointer" -> <<"elementType">>
      [] typ.k = "Array" -> <<"ptrTo", "elementType", "length">>
      [] typ.k = "Map" -> <<"ptrTo">>
      [] typ.k = "Struct" -> <<"numFields", "ptrTo", "fields">>
      [] typ.k = "Interface" -> <<"ptrTo">>
      [] typ.k = "Signature" -> <<"ptrTo">>

\* The global that llvm.AddGlobal(c.mod, c.getLLVMType(globalType), globalName)
\* creates for typ.
NewDescriptor(typ) == NewGlobal(DescriptorName(typ), "descriptor", typ, TypeLayout(typ))

AddGlobalOnEntry_Deferred(gs, typ) == gs

\* getTypeCode adds the global of typ to the module before it makes the
\* recursive calls for the types typ refers to.
AddGlobalOnEntry(gs, typ) == Append(gs, NewDescriptor(typ))

\* The recursive getTypeCode calls that build typeFields, in the order the
\* code makes them.  field = i > 0 marks the call for the type of field i of
\* a struct, which comes after the data global of that field is added.
TypeCodeCalls(typ) ==
    LET call(t) == [typ |-> t, field |-> 0] IN
    CASE typ.k = "Basic" -> <<call(Pointer(typ))>>
      [] typ.k = "Named" -> <<call(Pointer(typ)), call(Underlying(typ))>>
      [] typ.k \in {"Chan", "Slice"} -> <<call(Pointer(typ)), call(typ.elem)>>
      [] typ.k = "Pointer" -> <<call(typ.elem)>>
      [] typ.k = "Array" -> <<call(Pointer(typ)), call(typ.elem)>>
      [] typ.k = "Map" -> <<call(Pointer(typ))>>
      [] typ.k = "Struct" ->
            <<call(Pointer(typ))>> \o
            [i \in 1..Len(typ.fields) |-> [typ |-> typ.fields[i].typ, field |-> i]]
      [] typ.k = "Interface" -> <<call(Pointer(typ))>>
      [] typ.k = "Signature" -> <<call(Pointer(typ))>>

FieldFlags_SwappedBits(typ, i) ==
    LET field == typ.fields[i] IN
    Or8(Or8(Or8(0, IF field.embedded THEN 2 ELSE 0),
            IF field.tag # "" THEN 1 ELSE 0),
        IF IsExported(field.name) THEN 4 ELSE 0)

\* The flags byte of field i of a struct type.
FieldFlags(typ, i) ==
    LET field == typ.fields[i] IN
    Or8(Or8(Or8(0, IF field.embedded THEN 1 ELSE 0),
            IF field.tag # "" THEN 2 ELSE 0),
        IF IsExported(field.name) THEN 4 ELSE 0)

\* data of field i: string(flags) + field.Name() and, for a non-empty tag,
\* "\x00" + tag; ConstString(data, true) adds the terminating NUL.  The bytes
\* are kept as the list of their segments.
FieldData(typ, i) ==
    LET field == typ.fields[i] IN
    <<FieldFlags(typ, i), field.name>>
    \o (IF field.tag # "" THEN <<0, field.tag>> ELSE <<>>) \o <<0>>

\* The name of the data global of field i.
FieldDataName(typ, i) == DescriptorName(typ) \o "." \o typ.fields[i].name

\* dataGlobal of field i of the struct type typ.
FieldDataGlobal(typ, i) ==
    [NewGlobal(FieldDataName(typ, i), "fielddata", typ, <<"data">>) EXCEPT
        !.hasInit = TRUE, !.init = <<[blob |-> FieldData(typ, i)]>>,
        !.align = 1, !.unnamedAddr = TRUE, !.linkage = "internal",
        !.constant = TRUE]

ResultOffset_Zero(typ) == 0

\* offset of getTypeCode: the index of the 'kind' field in the global.
ResultOffset(typ) == IF HasMethodSet(typ) THEN 1 ELSE 0

\* The value getTypeCode returns: llvm.ConstGEP(type, global, 0, offset).
TypeCodeResult(typ) == Addr(DescriptorName(typ), ResultOffset(typ))

\* A getTypeCode call that is building the global of typ: the recursive calls
\* still to make, the addresses they returned, the field records of a struct.
NewFrame(typ) == [typ |-> typ, todo |-> TypeCodeCalls(typ), vals |-> <<>>, recs |-> <<>>]

\* The frame after the call for Head(fr.todo) returned addr.
Receive(fr, addr) ==
    LET item == Head(fr.todo) IN
    IF item.field = 0
    THEN [fr EXCEPT !.todo = Tail(fr.todo), !.vals = Append(fr.vals, addr)]
    ELSE [fr EXCEPT !.todo = Tail(fr.todo),
                    !.recs = Append(fr.recs,
                        [fieldType |-> addr,
                         data |-> Addr(FieldDataName(fr.typ, item.field), 0)])]

\* typeFields of getTypeCode once the recursive calls have returned, with
\* the metadata byte and the method set prepended.
TypeFields(fr, methodSet) ==
    LET typ == fr.typ
        fields ==
            CASE typ.k = "Array" -> fr.vals \o <<[int |-> typ.len]>>
              [] typ.k = "Struct" ->
                    <<[int |-> Len(typ.fields) % 65536]>> \o fr.vals \o <<[arr |-> fr.recs]>>
              [] OTHER -> fr.vals
    IN (IF HasMethodSet(typ) THEN <<methodSet>> ELSE <<>>)
       \o <<[int |-> MetaByte(typ)]>> \o fields

\* global.SetInitializer, SetLinkage, SetGlobalConstant and SetAlignment at
\* the end of getTypeCode.
InitDescriptor(gs, typ, typeFields) ==
    The({IF IsNil(NamedGlobal(gs, g.name))
         THEN Append(gs, g)
         ELSE [gs EXCEPT ![GlobalIndex(gs, g.name)] = g]
         : g \in {[NewDescriptor(typ) EXCEPT
                      !.hasInit = TRUE, !.init = typeFields,
                      !.linkage = "linkonce_odr", !.constant = TRUE,
                      !.align = PointerSize]}})


-----------------------------------------------------------------------------
(* Pointer pack *)

RECURSIVE FitsInPointer(_)
\* Whether a value of type typ fits in one pointer word (PointerSize bytes),
\* so that emitPointerPack stores it in the pointer itself.
FitsInPointer(typ) ==
    The({CASE u.k = "Basic" ->
                u.kind \notin {"Int64", "Uint64", "Float64", "Complex64", "Complex128", "String"}
           [] u.k \in {"Pointer", "Chan", "Map"} -> TRUE
           [] u.k \in {"Slice", "Interface", "Signature"} -> FALSE
           [] u.k = "Array" -> u.len = 0 \/ (u.len = 1 /\ FitsInPointer(u.elem))
           [] u.k = "Struct" ->
                Len(u.fields) = 0 \/ (Len(u.fields) = 1 /\ FitsInPointer(u.fields[1].typ))
         : u \in {Underlying(typ)}})

\* emitPointerPack: the opaque pointer of an interface value that holds v.
\* A value that fits is stored in the pointer word, any other value in a
\* fresh heap slot.
emitPointerPack(hp, typ, v) ==
    IF FitsInPointer(typ)
    THEN [heap |-> hp, ptr |-> [boxed |-> FALSE, bits |-> v]]
    ELSE [heap |-> Append(hp, v), ptr |-> [boxed |-> TRUE, bits |-> Len(hp) + 1]]

\* emitPointerUnpack: the value of type typ that the opaque pointer holds.
emitPointerUnpack(hp, ptr, typ) ==
    IF FitsInPointer(typ)
    THEN ptr.bits
    ELSE IF ptr.bits \in 1..Len(hp) THEN hp[ptr.bits] ELSE 0

-----------------------------------------------------------------------------
(* Top-level operations *)

\* The types the lowered program asks descriptors for.
RootTypes ==
    {TInt32, Pointer(TInt32), TA, TT, Pointer(TT), TN, TCloser,
     Chan("SendOnly", TInt), Chan("RecvOnly", TInt),
     Array(MaxArrayLen, TUint8), Struct(<<Field("T", TT, TRUE, "")>>)}

\* The concrete types of the values the program converts to interfaces.
ConcreteTypes == {TInt32, TT, Pointer(TT), TN, Chan("SendOnly", TInt)}

NoOp == [op |-> "none"]
NoItf == [valid |-> FALSE]
NoIR == [valid |-> FALSE]
NoExec == [state |-> "idle"]
NoPure == [op |-> "none"]
NoInvoke == [valid |-> FALSE]
NoRun == [state |-> "idle"]
NoLinks == [state |-> "idle"]
NoFile == [state |-> "closed"]
NoCache == [state |-> "idle"]
NoUSB == [state |-> "off"]

\* A new compilerContext: an empty module, nothing lowered.
InitCompiler ==
    /\ globals = <<>>
    /\ functions = <<>>
    /\ stack = <<>>
    /\ pending = NoOp
    /\ returned = <<>>
    /\ heap = <<>>
    /\ itf = NoItf
    /\ ir = NoIR
    /\ exec = NoExec
    /\ ops = 0
    /\ invoke = NoInvoke
    /\ wrun = NoRun
    /\ failure = ""

Init ==
    /\ InitCompiler /\ pure = NoPure
    /\ links = NoLinks /\ file = NoFile /\ cache = NoCache /\ usb = NoUSB

\* No top-level operation is being lowered, no emitted code is running and
\* no panic has ended the compilation.
Idle == stack = <<>> /\ pending.op = "none" /\ exec.state # "running" /\ failure = ""

\* The outermost getTypeCode call of a top-level operation returned addr.
Complete(op, addr) ==
    /\ pending' = NoOp
    /\ IF op.op = "makeInterface"
       THEN itf' = [valid |-> TRUE, typecode |-> addr, value |-> op.value,
                    typ |-> op.typ, v |-> op.v]
       ELSE itf' = itf

\* How a getTypeCode call that found the global g came to its result.
HowFound(g) == IF g.hasInit THEN "memo" ELSE "reentrant"

\* The outermost call getTypeCode(typ) made for the operation op.  The call
\* panics when the name of typ cannot be made (before anything is added to
\* the module) or when its kind is not known (after the global was added).
StartTypeCode(op, typ) ==
    IF UnknownType(typ)
    THEN /\ failure' = "unknown type: ()"
         /\ UNCHANGED <<globals, stack, pending, returned, itf>>
    ELSE
    \E found \in {TypeCodeGlobal(globals, typ)} :
        IF ~IsNil(found)
        THEN \E addr \in {TypeCodeResult(typ)} :
                /\ returned' = Append(returned,
                        [typ |-> typ, addr |-> addr, how |-> HowFound(found)])
                /\ Complete(op, addr)
                /\ UNCHANGED <<globals, stack, failure>>
        ELSE /\ globals' = AddGlobalOnEntry(globals, typ)
             /\ IF UnknownKind(typ)
                THEN /\ failure' = "unknown type"
                     /\ UNCHANGED <<stack, pending>>
                ELSE /\ stack' = <<NewFrame(typ)>>
                     /\ pending' = op
                     /\ failure' = failure
             /\ UNCHANGED <<returned, itf>>

\* c.getTypeCode(typ), called by the code that lowers an instruction.
GetTypeCode(typ) ==
    /\ Idle /\ ops < MaxOps
    /\ ops' = ops + 1
    /\ StartTypeCode([op |-> "getTypeCode", typ |-> typ], typ)
    /\ UNCHANGED <<functions, heap, ir, exec, pure, hostVars, invoke, wrun>>

createMakeInterface_Unpacked(v, typ) ==
    /\ Idle /\ ops < MaxOps
    /\ ops' = ops + 1
    /\ heap' = heap
    /\ StartTypeCode([op |-> "makeInterface", typ |-> typ,
                      value |-> [boxed |-> FALSE, bits |-> v], v |-> v], typ)
    /\ exec' = NoExec
    /\ UNCHANGED <<functions, ir, pure, hostVars, invoke, wrun>>

\* createMakeInterface emits the LLVM IR for the *ssa.MakeInterface
\* instruction: the pointer pack of val, then the type code of typ.
createMakeInterface(v, typ) ==
    /\ Idle /\ ops < MaxOps
    /\ ops' = ops + 1
    /\ \E pk \in {emitPointerPack(heap, typ, v)} :
          /\ heap' = pk.heap
          /\ StartTypeCode([op |-> "makeInterface", typ |-> typ, value |-> pk.ptr, v |-> v], typ)
    /\ exec' = NoExec
    /\ UNCHANGED <<functions, ir, pure, hostVars, invoke, wrun>>

\* c.getTypeMethodSet(typ) for a type with a method set, as getTypeCode
\* calls it.
GetTypeMethodSet(typ) ==
    /\ Idle /\ ops < MaxOps
    /\ HasMethodSet(typ)
    /\ ops' = ops + 1
    /\ \E ms \in {getTypeMethodSet(globals, functions, typ)} :
          /\ globals' = ms.globals
          /\ functions' = ms.functions
          /\ failure' = ms.failure
    /\ UNCHANGED <<stack, pending, returned, heap, itf, ir, exec, pure, hostVars, invoke, wrun>>

\* c.getInterfaceInvokeWrapper(fn, c.getFunction(fn)) for method i of the
\* method set of typ.  wrun keeps the request: the function it returned and
\* how many functions named fn$invoke the module had before and has after.
GetInterfaceInvokeWrapper(typ, i) ==
    /\ Idle /\ ops < MaxOps
    /\ HasMethodSet(typ) /\ i \in 1..Len(MethodSet(typ))
    /\ ops' = ops + 1
    /\ \E fn \in {MethodValue(typ, MethodSet(typ)[i])} :
          /\ fn.linkName \notin MissingFunctions
          /\ \E wr \in {getInterfaceInvokeWrapper(getFunction(functions, fn), fn)} :
                /\ functions' = wr.functions
                /\ wrun' = [state |-> "made", fn |-> fn, val |-> wr.val,
                            before |-> Len(SelectSeq(functions,
                                LAMBDA f : f.name = fn.linkName \o "$invoke")),
                            after |-> Len(SelectSeq(wr.functions,
                                LAMBDA f : f.name = fn.linkName \o "$invoke"))]
    /\ UNCHANGED <<globals, stack, pending, returned, heap, itf, ir, exec, pure, hostVars,
                   invoke, failure>>

\* getTypeCode makes its next recursive call and the callee does not find
\* the global of its type: the callee adds the global and goes on to its own
\* recursive calls, unless it panics on a type it does not know.
GetTypeCodeCall ==
    /\ stack # <<>> /\ failure = ""
    /\ Head(stack).todo # <<>>
    /\ \E fr \in {Head(stack)} : \E item \in {Head(fr.todo)} :
       \E gs \in {IF item.field > 0
                  THEN Append(globals, FieldDataGlobal(fr.typ, item.field))
                  ELSE globals} :
          IF UnknownType(item.typ)
          THEN /\ globals' = gs
               /\ failure' = "unknown type: ()"
               /\ stack' = stack
          ELSE /\ IsNil(TypeCodeGlobal(gs, item.typ))
               /\ globals' = AddGlobalOnEntry(gs, item.typ)
               /\ IF UnknownKind(item.typ)
                  THEN failure' = "unknown type" /\ stack' = stack
                  ELSE failure' = failure /\ stack' = <<NewFrame(item.typ)>> \o stack
    /\ UNCHANGED <<functions, pending, returned, heap, itf, ir, exec, ops, pure, hostVars, invoke, wrun>>

\* getTypeCode makes its next recursive call and the callee finds the global
\* of its type in the module (finished, or still being built by a caller):
\* the callee returns the address at once.
GetTypeCodeReuse ==
    /\ stack # <<>> /\ failure = ""
    /\ Head(stack).todo # <<>>
    /\ ~UnknownType(Head(Head(stack).todo).typ)
    /\ \E fr \in {Head(stack)} : \E item \in {Head(fr.todo)} :
       \E gs \in {IF item.field > 0
                  THEN Append(globals, FieldDataGlobal(fr.typ, item.field))
                  ELSE globals} :
       \E found \in {TypeCodeGlobal(gs, item.typ)}, addr \in {TypeCodeResult(item.typ)} :
          /\ ~IsNil(found)
          /\ globals' = gs
          /\ stack' = <<Receive(fr, addr)>> \o Tail(stack)
          /\ returned' = Append(returned,
                [typ |-> item.typ, addr |-> addr, how |-> HowFound(found)])
    /\ UNCHANGED <<functions, pending, heap, itf, ir, exec, ops, pure, hostVars, invoke, wrun, failure>>

\* The recursive calls of the innermost getTypeCode have all returned: it
\* builds the method set, sets the initializer and returns the address of
\* the 'kind' field to its caller.
GetTypeCodeReturn ==
    /\ stack # <<>> /\ failure = ""
    /\ Head(stack).todo = <<>>
    /\ \E fr \in {Head(stack)} :
       \E ms \in {IF HasMethodSet(fr.typ)
                  THEN getTypeMethodSet(globals, functions, fr.typ)
                  ELSE [globals |-> globals, functions |-> functions, val |-> Addr("", 0),
                        failure |-> ""]},
          addr \in {TypeCodeResult(fr.typ)} :
          /\ functions' = ms.functions
          /\ failure' = ms.failure
          /\ IF ms.failure # ""
             THEN /\ globals' = ms.globals
                  /\ UNCHANGED <<stack, returned, pending, itf>>
             ELSE /\ globals' = InitDescriptor(ms.globals, fr.typ, TypeFields(fr, ms.val))
                  /\ returned' = Append(returned,
                        [typ |-> fr.typ, addr |-> addr, how |-> "first"])
                  /\ IF Tail(stack) = <<>>
                     THEN /\ stack' = <<>>
                          /\ Complete(pending, addr)
                     ELSE /\ stack' = <<Receive(stack[2], addr)>> \o Tail(Tail(stack))
                          /\ UNCHANGED <<pending, itf>>
    /\ UNCHANGED <<heap, ir, exec, ops, pure, hostVars, invoke, wrun>>

-----------------------------------------------------------------------------
(* Interface-op lowerer: createTypeAssert *)

\* getMethodsString returns a string to be used in the "tinygo-methods"
\* string attribute for interface functions.
getMethodsString(itfType) ==
    Join([i \in 1..Len(itfType.methods) |-> getMethodSignatureName(itfType.methods[i])], "; ")

\* getInterfaceImplementsFunc returns a declared function that works as a
\* type switch.  The result is the new list of functions and the function's
\* name.
getInterfaceImplementsFunc(fs, assertedType) ==
    The({IF IsNil(NamedFunction(fs, fnName))
         THEN [functions |-> Append(fs,
                  [name |-> fnName, cls |-> "typeassert", defined |-> FALSE,
                   recv |-> assertedType,
                   sig |-> Signature(<<Basic("UnsafePointer")>>, <<Basic("Bool")>>, FALSE),
                   linkage |-> "external", unnamedAddr |-> FALSE,
                   attrs |-> <<[key |-> "tinygo-methods", value |-> getMethodsString(u)]>>,
                   body |-> <<>>]),
               val |-> fnName]
         ELSE [functions |-> fs, val |-> fnName]
         : u \in {Underlying(assertedType)},
           fnName \in {getTypeCodeName(Underlying(assertedType)) \o ".$typeassert"}})

\* getInvokeFunction returns the thunk to call the given interface method.
\* The thunk is declared, not defined.  valueType is instr.Value.Type() and
\* method is instr.Method.  The result is the new list of functions and the
\* thunk's name.
getInvokeFunction(fs, valueType, method) ==
    The({IF IsNil(NamedFunction(fs, fnName))
         THEN [functions |-> Append(fs,
                  [name |-> fnName, cls |-> "invoke", defined |-> FALSE,
                   recv |-> valueType,
                   sig |-> Signature(method.sig.params \o <<Basic("UnsafePointer")>>,
                                     method.sig.results, FALSE),
                   linkage |-> "external", unnamedAddr |-> FALSE,
                   attrs |-> <<[key |-> "tinygo-invoke",
                                value |-> getMethodSignatureName(method)],
                               [key |-> "tinygo-methods", value |-> getMethodsString(u)]>>,
                   body |-> <<>>]),
               val |-> fnName]
         ELSE [functions |-> fs, val |-> fnName]
         : u \in {Underlying(valueType)},
           fnName \in {getTypeCodeName(Underlying(valueType)) \o "." \o method.name
                          \o "$invoke"}})

TypeIDName_TypeString(assertedType) == "reflect/types.typeid:" \o typestring(assertedType)

\* globalName of the type assert on a concrete type.
TypeIDName(assertedType) == "reflect/types.typeid:" \o getTypeCodeName(assertedType)

\* The typecode global of the asserted type, created when the module does
\* not have it.
AssertedTypeCodeGlobal(gs, assertedType) ==
    The({IF IsNil(NamedGlobal(gs, globalName))
         THEN Append(gs, [NewGlobal(globalName, "typeid", assertedType, <<"i8">>) EXCEPT
                             !.constant = TRUE])
         ELSE gs
         : globalName \in {TypeIDName(assertedType)}})

CondBr_Swapped(cond, okBlock, nextBlock) ==
    [op |-> "condbr", cond |-> cond, then |-> nextBlock, else |-> okBlock]

\* b.CreateCondBr(commaOk, okBlock, nextBlock)
CondBr(cond, okBlock, nextBlock) ==
    [op |-> "condbr", cond |-> cond, then |-> okBlock, else |-> nextBlock]

PhiIncoming_Swapped(valueOk, prevBlock, okBlock) ==
    <<[val |-> valueOk, from |-> prevBlock], [val |-> "null", from |-> okBlock]>>

\* phi.AddIncoming([ConstNull(assertedType), valueOk], [prevBlock, okBlock])
PhiIncoming(valueOk, prevBlock, okBlock) ==
    <<[val |-> "null", from |-> prevBlock], [val |-> valueOk, from |-> okBlock]>>

TypeAssertReturn_AlwaysTuple(commaOk) ==
    <<[op |-> "tuple", vals |-> <<"typeassert.value", "commaOk">>],
      [op |-> "result", src |-> "tuple"]>>

\* The end of createTypeAssert: for expr.CommaOk the tuple of the phi and the
\* 'comma ok' boolean is returned; otherwise runtime.interfaceTypeAssert is
\* called with commaOk and the phi is returned.
TypeAssertReturn(commaOk) ==
    IF commaOk
    THEN <<[op |-> "tuple", vals |-> <<"typeassert.value", "commaOk">>],
           [op |-> "result", src |-> "tuple"]>>
    ELSE <<[op |-> "call", fn |-> "runtime.interfaceTypeAssert",
            args |-> <<"commaOk">>, dst |-> ""],
           [op |-> "result", src |-> "typeassert.value"]>>

\* Whether the type assert is on an interface type.
IsInterfaceAssert(assertedType) == Underlying(assertedType).k = "Interface"

\* The basic blocks createTypeAssert emits for x.(assertedType), where check
\* is the call that computes commaOk.  The registers are named as in the
\* code; "itf" is the value of expr.X.
TypeAssertBlocks(assertedType, commaOk, check) ==
    LET prevBlock == "entry"
        okBlock == "typeassert.ok"
        nextBlock == "typeassert.next"
        isItf == IsInterfaceAssert(assertedType)
        valueOk == IF isItf THEN "itf" ELSE "valueOk"
        prevCode ==
            <<[op |-> "extractvalue", src |-> "itf", idx |-> 0, dst |-> "interface.type"],
              check,
              CondBr("commaOk", okBlock, nextBlock)>>
        okCode ==
            (IF isItf THEN <<>>
             ELSE <<[op |-> "extractvalue", src |-> "itf", idx |-> 1,
                     dst |-> "typeassert.value.ptr"],
                    [op |-> "unpack", src |-> "typeassert.value.ptr",
                     typ |-> assertedType, dst |-> "valueOk"]>>)
            \o <<[op |-> "br", target |-> nextBlock]>>
        nextCode ==
            <<[op |-> "phi", typ |-> assertedType, dst |-> "typeassert.value",
               incoming |-> PhiIncoming(valueOk, prevBlock, okBlock)]>>
            \o TypeAssertReturn(commaOk)
    IN [b \in {prevBlock, okBlock, nextBlock} |->
            IF b = prevBlock THEN prevCode
            ELSE IF b = okBlock THEN okCode ELSE nextCode]

\* createTypeAssert will emit the code for a typeassert, used in if
\* statements and in type switches.
createTypeAssert(assertedType, commaOk) ==
    /\ Idle /\ ops < MaxOps
    /\ ops' = ops + 1
    /\ IF IsInterfaceAssert(assertedType)
       THEN \E fn \in {getInterfaceImplementsFunc(functions, assertedType)} :
            /\ functions' = fn.functions
            /\ globals' = globals
            /\ ir' = [valid |-> TRUE, at |-> assertedType, commaOk |-> commaOk,
                      blocks |-> TypeAssertBlocks(assertedType, commaOk,
                          [op |-> "call", fn |-> fn.val,
                           args |-> <<"interface.type">>, dst |-> "commaOk"])]
       ELSE /\ globals' = AssertedTypeCodeGlobal(globals, assertedType)
            /\ functions' = functions
            /\ ir' = [valid |-> TRUE, at |-> assertedType, commaOk |-> commaOk,
                      blocks |-> TypeAssertBlocks(assertedType, commaOk,
                          [op |-> "call", fn |-> "runtime.typeAssert",
                           args |-> <<"interface.type", TypeIDName(assertedType)>>,
                           dst |-> "commaOk"])]
    /\ exec' = NoExec
    /\ UNCHANGED <<stack, pending, returned, heap, itf, pure, hostVars, invoke, wrun, failure>>


\* The lowering of the call x.M(args) on the interface value x of type
\* valueType, where M is method i of the interface: getInvokeFunction gives
\* the thunk that the call targets.
GetInvokeFunction(valueType, i) ==
    /\ Idle /\ ops < MaxOps
    /\ i \in 1..Len(Underlying(valueType).methods)
    /\ ops' = ops + 1
    /\ \E method \in {Underlying(valueType).methods[i]} :
       \E fn \in {getInvokeFunction(functions, valueType, method)} :
          /\ functions' = fn.functions
          /\ invoke' = [valid |-> TRUE, typ |-> valueType, method |-> method,
                        fn |-> fn.val]
    /\ UNCHANGED <<globals, stack, pending, returned, heap, itf, ir, exec, pure, hostVars,
                   wrun, failure>>

-----------------------------------------------------------------------------
(* Execution of the emitted type assert *)

\* strings.TrimPrefix
TrimPrefix(str, prefix) ==
    IF Len(str) >= Len(prefix) /\ SubSeq(str, 1, Len(prefix)) = prefix
    THEN SubSeq(str, Len(prefix) + 1, Len(str))
    ELSE str

\* What the interface lowering pass makes of runtime.typeAssert(actualType,
\* typeid global): a comparison that is true when the descriptor behind
\* actualType is the one with the type key of the typeid global.
typeAssert(actualType, typeidName) ==
    /\ actualType.g # ""
    /\ TrimPrefix(typeidName, "reflect/types.typeid:")
         = TrimPrefix(actualType.g, "reflect/types.type:")

\* llvm.ConstNull(assertedType)
ConstNull(typ) ==
    IF IsInterfaceAssert(typ)
    THEN [typecode |-> Addr("", 0), value |-> [boxed |-> FALSE, bits |-> 0]]
    ELSE [typ |-> typ, v |-> 0]

None == [none |-> TRUE]

\* The state of an execution that enters the emitted code with expr.X = x.
EnterCode(x) ==
    [state |-> "running", block |-> "entry", prev |-> "", x |-> x,
     typecode |-> Addr("", 0), ptr |-> [boxed |-> FALSE, bits |-> 0],
     ok |-> FALSE, valueOk |-> None, phi |-> None, tuple |-> None,
     result |-> None, unpacked |-> FALSE, asserted |-> FALSE,
     panicked |-> FALSE, path |-> <<"entry">>]

\* The value of an operand of the phi.
Operand(ex, name, typ) ==
    CASE name = "null" -> ConstNull(typ)
      [] name = "itf" -> ex.x
      [] name = "valueOk" -> ex.valueOk

\* The execution after one instruction; r is what a declared-only function
\* (whose body a later pass provides) returns.
RunInstr(ex, ins, hp, r) ==
    CASE ins.op = "extractvalue" ->
            IF ins.idx = 0
            THEN [ex EXCEPT !.typecode = ex.x.typecode]
            ELSE [ex EXCEPT !.ptr = ex.x.value]
      [] ins.op = "call" ->
            (CASE ins.fn = "runtime.typeAssert" ->
                    [ex EXCEPT !.ok = typeAssert(ex.typecode, ins.args[2])]
               [] ins.fn = "runtime.interfaceTypeAssert" ->
                    [ex EXCEPT !.asserted = TRUE, !.panicked = ~ex.ok]
               [] OTHER -> [ex EXCEPT !.ok = r])
      [] ins.op = "unpack" ->
            [ex EXCEPT !.unpacked = TRUE,
                       !.valueOk = [typ |-> ins.typ,
                                    v |-> emitPointerUnpack(hp, ex.ptr, ins.typ)]]
      [] ins.op = "condbr" ->
            [ex EXCEPT !.prev = ex.block,
                       !.block = IF ex.ok THEN ins.then ELSE ins.else,
                       !.path = Append(ex.path, IF ex.ok THEN ins.then ELSE ins.else)]
      [] ins.op = "br" ->
            [ex EXCEPT !.prev = ex.block, !.block = ins.target,
                       !.path = Append(ex.path, ins.target)]
      [] ins.op = "phi" ->
            LET inc == ins.incoming
                i == CHOOSE j \in 1..Len(inc) : inc[j].from = ex.prev
            IN [ex EXCEPT !.phi = Operand(ex, inc[i].val, ins.typ)]
      [] ins.op = "tuple" ->
            [ex EXCEPT !.tuple = [value |-> ex.phi, ok |-> ex.ok]]
      [] ins.op = "result" ->
            [ex EXCEPT !.state = "done",
                       !.result = IF ins.src = "tuple" THEN ex.tuple ELSE ex.phi]

RECURSIVE RunBlock(_, _, _, _)
\* The execution after the instructions code of the current basic block.
RunBlock(ex, code, hp, r) ==
    IF Len(code) = 0 THEN ex
    ELSE RunBlock(RunInstr(ex, Head(code), hp, r), Tail(code), hp, r)

\* The emitted type assert starts to run on the interface value that the
\* last createMakeInterface built, and runs its first basic block.
ExecStart(r) ==
    /\ Idle /\ ir.valid /\ itf.valid /\ exec.state = "idle"
    /\ IsInterfaceAssert(ir.at) \/ ~r
    /\ exec' = RunBlock(EnterCode([typecode |-> itf.typecode, value |-> itf.value]),
                        ir.blocks["entry"], heap, r)
    /\ UNCHANGED <<globals, functions, stack, pending, returned, heap, itf, ir, ops, pure, hostVars, invoke, wrun, failure>>

\* The execution runs the basic block it branched to.
ExecStep ==
    /\ exec.state = "running"
    /\ exec' = RunBlock(exec, ir.blocks[exec.block], heap, FALSE)
    /\ UNCHANGED <<globals, functions, stack, pending, returned, heap, itf, ir, ops, pure, hostVars, invoke, wrun, failure>>

-----------------------------------------------------------------------------
(* Execution of an interface invoke wrapper *)

\* The wrapper's state after one instruction of its entry block; params are
\* the wrapper's parameters (the opaque pointer first) and res is what the
\* called function returns.
RunWrapperInstr(st, ins, hp, params, res) ==
    CASE ins.op = "unpack" ->
            [st EXCEPT !.receiverValue =
                          emitPointerUnpack(hp, params[ins.param + 1], ins.typ)]
      [] ins.op = "call" ->
            [st EXCEPT !.calls = Append(st.calls,
                          [fn |-> ins.fn,
                           args |-> [i \in 1..Len(ins.args) |->
                                        IF "param" \in DOMAIN ins.args[i]
                                        THEN params[ins.args[i].param + 1]
                                        ELSE st.receiverValue]]),
                       !.ret = res]
      [] ins.op = "ret" -> [st EXCEPT !.result = [value |-> st.ret]]
      [] ins.op = "retvoid" -> [st EXCEPT !.result = [void |-> TRUE]]

RECURSIVE RunWrapper(_, _, _, _, _)
\* The wrapper's state after the instructions code.
RunWrapper(st, code, hp, params, res) ==
    IF Len(code) = 0 THEN st
    ELSE RunWrapper(RunWrapperInstr(st, Head(code), hp, params, res),
                    Tail(code), hp, params, res)

\* A call through an interface runs wrapper i of the module: the receiver r
\* is given as the opaque pointer that the pointer pack made of it, followed
\* by the arguments a, a + 1, ...; the wrapped function returns res.
ExecWrapper(i, r, a, res) ==
    /\ Idle
    /\ i \in 1..Len(functions) /\ functions[i].cls = "wrapper"
    /\ \E w \in {functions[i]} :
       \E pk \in {emitPointerPack(heap, w.recv, r)},
          args \in {[j \in 1..Len(w.sig.params) |-> a + j - 1]} :
          wrun' = RunWrapper([receiverValue |-> 0, calls |-> <<>>, ret |-> 0,
                              result |-> None],
                             w.body, pk.heap, <<pk.ptr>> \o args, res)
                  @@ [state |-> "done", wrapper |-> w.name, sig |-> w.sig, r |-> r,
                      args |-> args, res |-> res, boxed |-> pk.ptr.boxed]
    /\ UNCHANGED <<globals, functions, stack, pending, returned, heap, itf, ir, exec,
                   ops, pure, invoke, failure, hostVars>>

-----------------------------------------------------------------------------
(* Specifications *)

\* The types the lowered program asserts interface values to.
AssertTypes ==
    {TInt32, TT, Pointer(TT), Chan("RecvOnly", TInt), TCloser, Interface(<<>>)}

Next ==
    \/ \E typ \in RootTypes : GetTypeCode(typ)
    \/ \E typ \in RootTypes : GetTypeMethodSet(typ)
    \/ \E typ \in ConcreteTypes, v \in 1..MaxVal : createMakeInterface(v, typ)
    \/ \E typ \in AssertTypes, commaOk \in BOOLEAN : createTypeAssert(typ, commaOk)
    \/ GetTypeCodeCall
    \/ GetTypeCodeReuse
    \/ GetTypeCodeReturn
    \/ \E r \in BOOLEAN : ExecStart(r)
    \/ ExecStep

\* One compilation: any MaxOps lowering operations, and the execution of the
\* emitted type assert.
Spec == Init /\ [][Next]_vars

\* The methods whose signature tokens are compared: exported and unexported
\* names, two packages, signatures that differ in a parameter type, in the
\* direction of a channel parameter, in the results or only in being variadic.
Methods ==
    {Method(name, pkg, sig) :
        name \in {"Put", "put"}, pkg \in {"main", "io"},
        sig \in {SigNone, SigClose,
                 Signature(<<Slice(TInt)>>, <<>>, FALSE),
                 Signature(<<Slice(TInt)>>, <<>>, TRUE),
                 Signature(<<Chan("SendOnly", TInt)>>, <<>>, FALSE),
                 Signature(<<Chan("RecvOnly", TInt)>>, <<>>, FALSE)}}

\* The pure functions applied to any two types, or any two methods, of the
\* universe.
InitPure ==
    /\ InitCompiler /\ links = NoLinks /\ file = NoFile /\ cache = NoCache /\ usb = NoUSB
    /\ pure \in {[op |-> "input", t1 |-> t1, t2 |-> t2] : t1 \in Types, t2 \in Types}
              \cup {[op |-> "methods", m1 |-> m1, m2 |-> m2] : m1 \in Methods, m2 \in Methods}

\* getMethodSignature is applied to both methods, in one module.
ApplyMethodSignature ==
    /\ pure.op = "methods"
    /\ \E r1 \in {getMethodSignature(<<>>, pure.m1)} :
       \E r2 \in {getMethodSignature(r1.globals, pure.m2)} :
          pure' = [op |-> "token", m1 |-> pure.m1, m2 |-> pure.m2,
                   g1 |-> r1.val, g2 |-> r2.val, globals |-> r2.globals]
    /\ UNCHANGED compilerVars

\* getTypeCodeName is applied to both types.
ApplyTypeCodeName ==
    /\ pure.op = "input"
    /\ pure' = [op |-> "name", t1 |-> pure.t1, t2 |-> pure.t2,
                n1 |-> getTypeCodeName(pure.t1), n2 |-> getTypeCodeName(pure.t2)]
    /\ UNCHANGED compilerVars

\* getTypeKind is applied to the first type, and the metadata byte computed
\* from it as getTypeCode does.
ApplyTypeKind ==
    /\ pure.op = "input"
    /\ pure' = [op |-> "kind", t1 |-> pure.t1, t2 |-> pure.t2,
                kind |-> getTypeKind(pure.t1), meta |-> MetaByte(pure.t1)]
    /\ UNCHANGED compilerVars

NextPure == ApplyTypeCodeName \/ ApplyTypeKind \/ ApplyMethodSignature

SpecPure == InitPure /\ [][NextPure]_vars

\* The interface types of the values the program asserts to and calls
\* methods on.
InterfaceValueTypes ==
    {TCloser, TReader, TError, IfaceReadCloser, IfaceSink, IfaceSource,
     Interface(<<Method("m", "main", SigNone)>>),
     Interface(<<Method("m", "io", SigNone)>>)}

NextItf ==
    \/ \E typ \in InterfaceValueTypes \cup {Interface(<<>>)}, commaOk \in BOOLEAN :
          createTypeAssert(typ, commaOk)
    \/ \E typ \in InterfaceValueTypes, i \in 1..2 : GetInvokeFunction(typ, i)

\* One compilation: any MaxOps type asserts on interface types and calls of
\* interface methods.
SpecItf == Init /\ [][NextItf]_vars

\* Types of a program that the compiler cannot compile, and two that it can.
FailTypes == {TQ, TU, TV, Slice(Tuple), Pointer(TU), TN, TInt32}

NextFail ==
    \/ \E typ \in FailTypes : GetTypeCode(typ)
    \/ \E typ \in {TQ, TN} : GetTypeMethodSet(typ)
    \/ GetTypeCodeCall
    \/ GetTypeCodeReuse
    \/ GetTypeCodeReturn

\* One compilation of a program with types that make the compiler panic.
SpecFail == Init /\ [][NextFail]_vars

\* The types whose method sets the program materializes before it calls
\* their methods through interfaces.
WrapperTypes == {TT, Pointer(TT), TN, TP}

NextWrapper ==
    \/ \E typ \in WrapperTypes : GetTypeMethodSet(typ)
    \/ \E typ \in WrapperTypes, i \in 1..2 : GetInterfaceInvokeWrapper(typ, i)
    \/ \E i \in 1..(4 * MaxOps), r \in 0..MaxVal, a \in 0..MaxVal, res \in 0..MaxVal :
          ExecWrapper(i, r, a, res)

\* One compilation that materializes any MaxOps method sets, and calls of
\* the wrappers it made.
SpecWrapper == Init /\ [][NextWrapper]_vars


-----------------------------------------------------------------------------
(* The merged GOROOT: listGorootMergeLinks (src/loader/goroot.go)           *)
(*                                                                         *)
(* A path is the list of its elements.  A key of the override table is the *)
(* path of a directory below src: the key "crypto/rand/" is                *)
(* <<"crypto", "rand">> and the key "" is <<>>.  A source tree gives for   *)
(* every path below src whether it is missing, a regular file or a         *)
(* directory.                                                              *)

\* The paths below src that the source trees may have.
TreePaths ==
    {<<"crypto">>, <<"crypto", "crypto.go">>, <<"crypto", "rand">>,
     <<"crypto", "internal">>, <<"crypto", "internal", "boring.go">>}

\* The directories an override table may name.
OverrideDirs == {<<>>, <<"crypto">>, <<"crypto", "rand">>, <<"crypto", "internal">>}

\* The source trees: an entry exists only in a directory, and the entries
\* crypto.go and boring.go are never directories.
Trees ==
    {t \in [TreePaths -> {"none", "file", "dir"}] :
        \A p \in TreePaths :
            /\ (Len(p) > 1 /\ t[p] # "none") => t[SubSeq(p, 1, Len(p) - 1)] = "dir"
            /\ p \notin OverrideDirs => t[p] # "dir"}

\* The override tables: any directories, each merged (TRUE) or taken from
\* TinyGo (FALSE).
OverrideTables == UNION {[D -> BOOLEAN] : D \in SUBSET OverrideDirs}

\* pathsToOverride: the boolean indicates whether to merge the subdirs.
pathsToOverride(goMinor, needsSyscallPackage) ==
    LET paths ==
            (<<>> :> TRUE) @@ (<<"crypto">> :> TRUE) @@ (<<"crypto", "rand">> :> FALSE)
            @@ (<<"device">> :> FALSE) @@ (<<"examples">> :> FALSE)
            @@ (<<"internal">> :> TRUE) @@ (<<"internal", "fuzz">> :> FALSE)
            @@ (<<"internal", "bytealg">> :> FALSE)
            @@ (<<"internal", "reflectlite">> :> FALSE)
            @@ (<<"internal", "task">> :> FALSE) @@ (<<"machine">> :> FALSE)
            @@ (<<"net">> :> TRUE) @@ (<<"os">> :> TRUE) @@ (<<"reflect">> :> FALSE)
            @@ (<<"runtime">> :> FALSE) @@ (<<"sync">> :> TRUE) @@ (<<"testing">> :> TRUE)
        paths19 ==
            IF goMinor >= 19
            THEN (<<"crypto", "internal">> :> TRUE)
                 @@ (<<"crypto", "internal", "boring">> :> TRUE)
                 @@ (<<"crypto", "internal", "boring", "sig">> :> FALSE) @@ paths
            ELSE paths
    IN IF needsSyscallPackage THEN (<<"syscall">> :> TRUE) @@ paths19 ELSE paths19

\* ioutil.ReadDir(dir) in a source tree: the entries of the directory, or an
\* error (Nil) when dir is not a directory of the tree.
ReadDir(tree, dir) ==
    IF dir # <<>> /\ tree[dir] # "dir" THEN Nil
    ELSE [entries |-> {p \in DOMAIN tree : /\ Len(p) = Len(dir) + 1
                                         /\ SubSeq(p, 1, Len(dir)) = dir
                                         /\ tree[p] # "none"}]

\* A value of the map: the file or directory at path in the Go or the
\* TinyGo root.
Link(root, path) == [root |-> root, path |-> path]

MergeLinksOfDir_MixFiles(l, dir) ==
    IF ~l.overrides[dir]
    THEN [l EXCEPT !.todo = @ \ {dir},
                   !.merges = (<<"src">> \o dir :> Link("tinygo", <<"src">> \o dir)) @@ @]
    ELSE The({
        IF IsNil(tinygoEntries) \/ IsNil(goEntries)
        THEN [l EXCEPT !.state = "error", !.merges = <<>>]
        ELSE [l EXCEPT
                !.todo = @ \ {dir},
                !.merges =
                    [k \in {<<"src">> \o e : e \in
                                {e \in goEntries.entries : e \notin DOMAIN l.overrides}}
                        |-> Link("go", k)]
                    @@ [k \in {<<"src">> \o e : e \in
                                {e \in tinygoEntries.entries : l.tinygo[e] # "dir"}}
                        |-> Link("tinygo", k)]
                    @@ @]
        : tinygoEntries \in {ReadDir(l.tinygo, dir)}, goEntries \in {ReadDir(l.go, dir)}})

\* One iteration of the loop of listGorootMergeLinks over the override table,
\* for the key dir: a directory that is not merged is linked from TinyGo; of
\* a merged directory the files of TinyGo are linked, and then the entries of
\* Go that are not keys of the table, without the files when TinyGo has
\* files.  A later write to a key of the map replaces an earlier one.  An
\* error of ReadDir ends the function without a map.
MergeLinksOfDir(l, dir) ==
    IF ~l.overrides[dir]
    THEN [l EXCEPT !.todo = @ \ {dir},
                   !.merges = (<<"src">> \o dir :> Link("tinygo", <<"src">> \o dir)) @@ @]
    ELSE The({
        IF IsNil(tinygoEntries) \/ IsNil(goEntries)
        THEN [l EXCEPT !.state = "error", !.merges = <<>>]
        ELSE The({
            [l EXCEPT
                !.todo = @ \ {dir},
                !.merges =
                    [k \in {<<"src">> \o e : e \in
                                {e \in goEntries.entries :
                                    /\ ~(hasTinyGoFiles /\ l.go[e] # "dir")
                                    /\ e \notin DOMAIN l.overrides}}
                        |-> Link("go", k)]
                    @@ [k \in {<<"src">> \o e : e \in
                                {e \in tinygoEntries.entries : l.tinygo[e] # "dir"}}
                        |-> Link("tinygo", k)]
                    @@ @]
            : hasTinyGoFiles \in {\E e \in tinygoEntries.entries : l.tinygo[e] # "dir"}})
        : tinygoEntries \in {ReadDir(l.tinygo, dir)}, goEntries \in {ReadDir(l.go, dir)}})

\* for dir, merge := range overrides: the next key of the table, in any
\* order.
ListGorootMergeLinksLoop(dir) ==
    /\ links.state = "running" /\ dir \in links.todo
    /\ links' = MergeLinksOfDir(links, dir)
    /\ UNCHANGED <<moduleVars, pure, file, cache, usb>>

\* After the loop: the special directories bin, lib and pkg are linked from
\* goroot and the map is returned.
ListGorootMergeLinksReturn ==
    /\ links.state = "running" /\ links.todo = {}
    /\ links' = [links EXCEPT
                    !.state = "done",
                    !.merges = [k \in {<<"bin">>, <<"lib">>, <<"pkg">>} |-> Link("go", k)] @@ @]
    /\ UNCHANGED <<moduleVars, pure, file, cache, usb>>

InitGoroot ==
    /\ InitCompiler /\ pure = NoPure /\ file = NoFile /\ cache = NoCache /\ usb = NoUSB
    /\ links \in {[state |-> "running", overrides |-> ov, tinygo |-> t, go |-> g,
                   todo |-> DOMAIN ov, merges |-> <<>>]
                  : ov \in OverrideTables, t \in Trees, g \in Trees}

NextGoroot ==
    \/ \E dir \in OverrideDirs : ListGorootMergeLinksLoop(dir)
    \/ ListGorootMergeLinksReturn

\* listGorootMergeLinks on any override table and any two source trees.
SpecGoroot == InitGoroot /\ [][NextGoroot]_vars

-----------------------------------------------------------------------------
(* os.File as the tests of src/src/os/os_test.go use it                    *)

\* const data = "hello, world\n", byte by byte.
FileData == <<"h", "e", "l", "l", "o", ",", " ", "w", "o", "r", "l", "d", "\n">>

\* The lengths of the buffers b the tests read into.
BufLens == {0, 5, 10}

\* The bytes a read of at most len bytes at offset off finds in the file.
BytesAt(off, len) ==
    IF off >= Len(FileData) THEN <<>>
    ELSE SubSeq(FileData, off + 1,
                IF off + len > Len(FileData) THEN Len(FileData) ELSE off + len)

\* The record of one call on the file: start is the seek offset of the file
\* when the call was made.
Call(op, start, len, off, b, err) ==
    [op |-> op, start |-> start, len |-> len, off |-> off, b |-> b, n |-> Len(b), err |-> err]

\* The file after a call that leaves the seek offset at offset.
FileAfter(offset, call) ==
    [state |-> "open", offset |-> offset, last |-> call, prev |-> file.last]

\* f, err := Open(f.Name()): the file is opened for reading at offset 0.
FileOpen ==
    /\ file.state = "closed"
    /\ file' = [state |-> "open", offset |-> 0, last |-> Call("open", 0, 0, 0, <<>>, ""),
                prev |-> Call("open", 0, 0, 0, <<>>, "")]
    /\ UNCHANGED <<moduleVars, pure, links, cache, usb>>

\* f.Seek(off, io.SeekStart)
FileSeek(off) ==
    /\ file.state = "open"
    /\ file' = FileAfter(off, Call("seek", file.offset, 0, off, <<>>, ""))
    /\ UNCHANGED <<moduleVars, pure, links, cache, usb>>

\* n, err = f.Read(b) with len(b) = len: the bytes at the seek offset, which
\* moves past them; 0, nil for an empty b and 0, io.EOF at the end of the
\* file.
FileRead(len) ==
    /\ file.state = "open"
    /\ \E b \in {BytesAt(file.offset, len)} :
          file' = FileAfter(file.offset + Len(b),
                            Call("read", file.offset, len, file.offset, b,
                                 IF len > 0 /\ Len(b) = 0 THEN "EOF" ELSE ""))
    /\ UNCHANGED <<moduleVars, pure, links, cache, usb>>

ReadAtOffset_Plan9(offset, off, n) == off + n

\* The seek offset of the file after ReadAt read n bytes at off: pread does
\* not move it.
ReadAtOffset(offset, off, n) == offset

\* n, err := f.ReadAt(b, off) with len(b) = len: an error for a negative
\* offset; else the bytes at off, with io.EOF when fewer than len(b) bytes
\* are there.
FileReadAt(len, off) ==
    /\ file.state = "open"
    /\ IF off < 0
       THEN file' = FileAfter(file.offset,
                              Call("readat", file.offset, len, off, <<>>, "negative offset"))
       ELSE \E b \in {BytesAt(off, len)} :
               file' = FileAfter(ReadAtOffset(file.offset, off, Len(b)),
                                 Call("readat", file.offset, len, off, b,
                                      IF Len(b) < len THEN "EOF" ELSE ""))
    /\ UNCHANGED <<moduleVars, pure, links, cache, usb>>

NextFile ==
    \/ FileOpen
    \/ \E off \in {0, 5} : FileSeek(off)
    \/ \E len \in BufLens : FileRead(len)
    \/ \E len \in BufLens, off \in {-10, 0, 7, 13} : FileReadAt(len, off)

\* The calls of the tests on one open file, in any order.
SpecFile == Init /\ [][NextFile]_vars

-----------------------------------------------------------------------------
(* The runtime's view of the descriptors: package reflect                   *)
(* (src/loader/goroot.go from line 635)                                     *)

\* align(offset, alignment): offset rounded up to a multiple of alignment.
align(offset, alignment) == ((offset + alignment - 1) \div alignment) * alignment

RECURSIVE FieldOffset(_, _)
\* The byte offset of field i of a struct whose fields have the given sizes
\* and alignments, as both LLVM (for a non-packed struct) and Go lay it out.
FieldOffset(fields, i) ==
    IF i = 1 THEN 0
    ELSE align(FieldOffset(fields, i - 1) + fields[i - 1].size, fields[i].align)

\* A struct field of a scalar type: its alignment is its size.
Scalar(name, size) == [name |-> name, size |-> size, align |-> size]

\* type structField struct { fieldType *rawType; data unsafe.Pointer }
structField == <<Scalar("fieldType", PointerSize), Scalar("data", PointerSize)>>

\* unsafe.Sizeof(structField{})
SizeofStructField == FieldOffset(structField, 2) + PointerSize

\* type elemType struct { rawType; ptrTo *rawType; elem *rawType }
elemType ==
    <<Scalar("meta", 1), Scalar("ptrTo", PointerSize), Scalar("elem", PointerSize)>>

\* type ptrType struct { rawType; elem *rawType }
ptrType == <<Scalar("meta", 1), Scalar("elem", PointerSize)>>

\* type arrayType struct { rawType; ptrTo *rawType; elem *rawType; arrayLen uintptr }
arrayType ==
    <<Scalar("meta", 1), Scalar("ptrTo", PointerSize), Scalar("elem", PointerSize),
      Scalar("arrayLen", PointerSize)>>

\* type structType struct { rawType; numField uint16; ptrTo *rawType;
\*                          fields [1]structField }
structType ==
    <<Scalar("meta", 1), Scalar("numField", 2), Scalar("ptrTo", PointerSize),
      [name |-> "fields", size |-> SizeofStructField, align |-> PointerSize]>>

\* The byte offset of the named field in one of the structs above.
OffsetOf(struct, name) ==
    FieldOffset(struct, CHOOSE i \in 1..Len(struct) : struct[i].name = name)

\* The fields of the LLVM struct type of a descriptor global: the types of
\* typeFieldTypes of getTypeCode (int8 kind, uint16 numFields, uintptr
\* length, an array of structField for fields, pointers otherwise).
GlobalFields(g) ==
    [i \in 1..Len(g.layout) |->
        CASE g.layout[i] = "kind" -> Scalar("kind", 1)
          [] g.layout[i] = "numFields" -> Scalar("numFields", 2)
          [] g.layout[i] = "fields" ->
                [name |-> "fields", size |-> Len(g.typ.fields) * SizeofStructField,
                 align |-> PointerSize]
          [] OTHER -> Scalar(g.layout[i], PointerSize)]

\* What a load finds where the compiler put nothing of the size loaded.
Garbage == [garbage |-> TRUE]

\* The value of size bytes that the memory holds off bytes after the
\* address p = Addr(g, idx) of a field of an initialised global.
Load(gs, p, off, size) ==
    LET g == NamedGlobal(gs, p.g)
        fs == GlobalFields(g)
        target == FieldOffset(fs, p.idx + 1) + off
        hits == {i \in 1..Len(fs) :
                    /\ FieldOffset(fs, i) <= target
                    /\ target < FieldOffset(fs, i) + fs[i].size}
    IN IF hits = {} THEN Garbage
       ELSE LET i == CHOOSE i \in hits : TRUE
                rel == target - FieldOffset(fs, i)
            IN IF g.layout[i] = "fields"
               THEN LET rec == g.init[i].arr[(rel \div SizeofStructField) + 1]
                        at == rel % SizeofStructField
                    IN CASE size = PointerSize /\ at = OffsetOf(structField, "fieldType") ->
                                rec.fieldType
                         [] size = PointerSize /\ at = OffsetOf(structField, "data") ->
                                rec.data
                         [] OTHER -> Garbage
               ELSE IF rel = 0 /\ size = fs[i].size THEN g.init[i] ELSE Garbage

\* The integer a load returned (-1 when it did not return an integer).
IntOf(v) == IF "int" \in DOMAIN v THEN v.int ELSE -1

\* t.meta
Meta(gs, t) == IntOf(Load(gs, t, 0, 1))

\* func (t *rawType) Kind() Kind
rawTypeKind(gs, t) == And8(Meta(gs, t), 31)

\* func (t *rawType) underlying() *rawType
underlying(gs, t) ==
    IF And8(Meta(gs, t), flagNamed) # 0
    THEN Load(gs, t, OffsetOf(elemType, "elem"), PointerSize)
    ELSE t

\* What a call of the runtime that panics returns in the model.
Panic(msg) == [panic |-> msg]

PointerTo_NoPointerCase(gs, t) ==
    IF rawTypeKind(gs, t) = Kind("Struct")
    THEN Load(gs, t, OffsetOf(structType, "ptrTo"), PointerSize)
    ELSE Load(gs, t, OffsetOf(elemType, "ptrTo"), PointerSize)

\* func PointerTo(t Type) Type
PointerTo(gs, t) ==
    CASE rawTypeKind(gs, t) = Kind("Pointer") -> Panic("reflect: cannot make **T type")
      [] rawTypeKind(gs, t) = Kind("Struct") ->
            Load(gs, t, OffsetOf(structType, "ptrTo"), PointerSize)
      [] OTHER -> Load(gs, t, OffsetOf(elemType, "ptrTo"), PointerSize)

elem_PointerAsElemType(gs, t) ==
    LET u == underlying(gs, t) IN
    CASE rawTypeKind(gs, u) \in {Kind("Pointer"), Kind("Chan"), Kind("Slice"), Kind("Array")} ->
            Load(gs, u, OffsetOf(elemType, "elem"), PointerSize)
      [] OTHER -> Panic("unimplemented: (reflect.Type).Elem()")

\* func (t *rawType) elem() *rawType, which Elem returns.
elem(gs, t) ==
    LET u == underlying(gs, t) IN
    CASE rawTypeKind(gs, u) = Kind("Pointer") ->
            Load(gs, u, OffsetOf(ptrType, "elem"), PointerSize)
      [] rawTypeKind(gs, u) \in {Kind("Chan"), Kind("Slice"), Kind("Array")} ->
            Load(gs, u, OffsetOf(elemType, "elem"), PointerSize)
      [] OTHER -> Panic("unimplemented: (reflect.Type).Elem()")

\* func (t *rawType) Len() int
rawTypeLen(gs, t) ==
    IF rawTypeKind(gs, t) # Kind("Array") THEN Panic("Len")
    ELSE Load(gs, underlying(gs, t), OffsetOf(arrayType, "arrayLen"), PointerSize)

\* func (t *rawType) NumField() int
NumField(gs, t) ==
    IF rawTypeKind(gs, t) # Kind("Struct") THEN Panic("NumField")
    ELSE Load(gs, underlying(gs, t), OffsetOf(structType, "numField"), 2)

\* The byte 0x00 inside a Go string (a TLA+ string cannot hold it; no other
\* string of the model holds a form feed).
NulChar == "\f"

\* The characters with the byte values 32 to 95 and 97 to 126, in the order
\* of their values.
Ascii ==
    <<" !\"#$%&'()*+,-./0123456789:;<=>?@ABCDEFGHIJKLMNOPQRSTUVWXYZ[\\]^_",
      "abcdefghijklmnopqrstuvwxyz{|}~">>

\* The value of the byte of a one-character string.
ByteOf(c) ==
    CASE c = NulChar -> 0
      [] \E i \in 1..Len(Ascii[1]) : SubSeq(Ascii[1], i, i) = c ->
            31 + CHOOSE i \in 1..Len(Ascii[1]) : SubSeq(Ascii[1], i, i) = c
      [] OTHER -> 96 + CHOOSE i \in 1..Len(Ascii[2]) : SubSeq(Ascii[2], i, i) = c

\* The one-character string of a byte.
CharOf(b) ==
    CASE b = 0 -> NulChar
      [] b < 96 -> SubSeq(Ascii[1], b - 31, b - 31)
      [] OTHER -> SubSeq(Ascii[2], b - 96, b - 96)

\* The bytes of a string.
StringBytes(s) == [i \in 1..Len(s) |-> ByteOf(SubSeq(s, i, i))]

RECURSIVE BytesString(_)
\* The string of the given bytes (what the stringHeader{data, len} of
\* rawField denotes).
BytesString(bytes) ==
    IF Len(bytes) = 0 THEN ""
    ELSE CharOf(bytes[1]) \o BytesString(Tail(bytes))

RECURSIVE BlobBytes(_)
\* The bytes of the initializer of a field data global, which the compiler
\* model keeps as a list of segments: a byte, a string, a byte, a string ...
BlobBytes(segments) ==
    IF Len(segments) = 0 THEN <<>>
    ELSE IF Len(segments) = 1 THEN <<segments[1]>>
    ELSE <<segments[1]>> \o StringBytes(segments[2])
         \o BlobBytes(SubSeq(segments, 3, Len(segments)))

\* The bytes of the memory from the address data of a field data global to
\* the end of that global.
BytesAtAddr(gs, data) == BlobBytes(NamedGlobal(gs, data.g).init[1].blob)

RECURSIVE ScanNul(_, _)
\* for *(*byte)(data) != 0 { len++; data++ }: the number of bytes from
\* position pos to the first NUL byte.  Every blob of the compiler ends with
\* a NUL byte, so that the scan stays inside the global.
ScanNul(bytes, pos) ==
    IF pos > Len(bytes) \/ bytes[pos] = 0 THEN 0
    ELSE 1 + ScanNul(bytes, pos + 1)

\* func (t *rawType) rawField(n int) rawStructField, without the Offset
\* member (the sizes of the field types are not part of the descriptors).
rawField(gs, t, n) ==
    IF rawTypeKind(gs, t) # Kind("Struct") THEN Panic("Field")
    ELSE
    LET descriptor == underlying(gs, t)
        numField == IntOf(Load(gs, descriptor, OffsetOf(structType, "numField"), 2))
    IN IF n < 0 \/ n >= numField THEN Panic("reflect: field index out of range")
       ELSE
       LET field == OffsetOf(structType, "fields") + n * SizeofStructField
           fieldType == Load(gs, descriptor,
                             field + OffsetOf(structField, "fieldType"), PointerSize)
           data == Load(gs, descriptor,
                        field + OffsetOf(structField, "data"), PointerSize)
           bytes == BytesAtAddr(gs, data)
           flagsByte == bytes[1]
           nameStart == 2
           nameLen == ScanNul(bytes, nameStart)
           tagStart == nameStart + nameLen + 1
           tagLen == ScanNul(bytes, tagStart)
       IN [Name |-> BytesString(SubSeq(bytes, nameStart, nameStart + nameLen - 1)),
           PkgPath |-> IF And8(flagsByte, 4) = 0 THEN "<unimplemented>" ELSE "",
           Type |-> fieldType,
           Tag |-> IF And8(flagsByte, 2) # 0
                   THEN BytesString(SubSeq(bytes, tagStart, tagStart + tagLen - 1))
                   ELSE "",
           Anonymous |-> And8(flagsByte, 1) # 0]

\* type K struct{ k int "a\x00b" }: a field whose tag holds a NUL byte.
StructNul == Struct(<<Field("k", TInt, FALSE, "a" \o NulChar \o "b")>>)

\* The types whose descriptors the running program hands to package reflect.
ReflectTypes ==
    {TT, TN, TA, StructXY, StructNul, Struct(<<Field("T", TT, TRUE, "")>>),
     Array(MaxArrayLen, TUint8), Slice(TInt), Chan("SendRecv", TInt), Pointer(TInt32),
     Map(TString, TInt)}

NextReflect ==
    \/ \E typ \in ReflectTypes : GetTypeCode(typ)
    \/ GetTypeCodeCall
    \/ GetTypeCodeReuse
    \/ GetTypeCodeReturn

\* One compilation that emits the descriptors of any MaxOps of these types.
SpecReflect == Init /\ [][NextReflect]_vars

-----------------------------------------------------------------------------
(* The cached GOROOT: GetCachedGoroot (src/loader/goroot.go lines 38-143)   *)
(*                                                                         *)
(* The GOCACHE directory is a function from the names of its directories   *)
(* to the set of the paths inside each (the empty path is the directory    *)
(* itself).  Any number of calls run at once; two calls of one process     *)
(* share gorootCreateMutex, two processes share only the file system.      *)

RECURSIVE BytesLess(_, _)
\* a < b for two strings given by their bytes, as Go compares strings.
BytesLess(a, b) ==
    IF Len(b) = 0 THEN FALSE
    ELSE IF Len(a) = 0 THEN TRUE
    ELSE IF a[1] # b[1] THEN a[1] < b[1]
    ELSE BytesLess(Tail(a), Tail(b))

RECURSIVE SortStrings(_)
\* sort.Strings on a set of strings.
SortStrings(S) ==
    IF S = {} THEN <<>>
    ELSE The({<<m>> \o SortStrings(S \ {m})
              : m \in {CHOOSE x \in S :
                          \A y \in S \ {x} : BytesLess(StringBytes(x), StringBytes(y))}})

\* The elements of the path that filepath.Join made.
SplitPath(str) ==
    LET cuts == <<0>> \o SelectSeq([i \in 1..Len(str) |-> i],
                                   LAMBDA i : SubSeq(str, i, i) = "/")
                 \o <<Len(str) + 1>>
    IN [i \in 1..(Len(cuts) - 1) |-> SubSeq(str, cuts[i] + 1, cuts[i + 1] - 1)]

DirsToCreate_Descending(tmpgoroot, overrides) ==
    The({[i \in 1..Len(dirs) |-> Tail(SplitPath(dirs[Len(dirs) + 1 - i]))]
         : dirs \in {SortStrings({Join(<<tmpgoroot, "src">> \o dir, "/")
                                    : dir \in {d \in DOMAIN overrides : overrides[d]}})}})

\* dirs of GetCachedGoroot after sort.Strings: filepath.Join(tmpgoroot,
\* "src", dir) for the merged directories of the table, in sorted order;
\* each as its path inside tmpgoroot.
DirsToCreate(tmpgoroot, overrides) ==
    The({[i \in 1..Len(dirs) |-> Tail(SplitPath(dirs[i]))]
         : dirs \in {SortStrings({Join(<<tmpgoroot, "src">> \o dir, "/")
                                    : dir \in {d \in DOMAIN overrides : overrides[d]}})}})

RECURSIVE MergeLinksLoop(_)
\* The loop of listGorootMergeLinks over the override table.
MergeLinksLoop(l) ==
    IF l.state # "running" \/ l.todo = {} THEN l
    ELSE MergeLinksLoop(MergeLinksOfDir(l, CHOOSE dir \in l.todo : TRUE))

\* merge, err := listGorootMergeLinks(goroot, tinygoroot, overrides): the
\* map, or Nil for an error.
listGorootMergeLinks(go, tinygo, overrides) ==
    The({IF l.state = "error" THEN Nil
         ELSE [merges |-> [k \in {<<"bin">>, <<"lib">>, <<"pkg">>} |-> Link("go", k)]
                          @@ l.merges]
         : l \in {MergeLinksLoop([state |-> "running", overrides |-> overrides,
                                  tinygo |-> tinygo, go |-> go,
                                  todo |-> DOMAIN overrides, merges |-> <<>>])}})

\* What is at the source of a link: "dir", "file" or "none".  bin, lib and
\* pkg are directories of the Go root.
SourceKind(tree, path) ==
    IF path[1] # "src" THEN "dir"
    ELSE IF Tail(path) \in DOMAIN tree THEN tree[Tail(path)]
    ELSE "none"

\* mirror(src, filepath.Join(tmpgoroot, dst)) on the paths that tmpgoroot
\* has: filepath.Walk visits the source and, for a directory, what is below
\* it, parents first; a target that exists is left alone, a directory is
\* made with os.Mkdir and a file with os.Link, which both fail in a
\* directory that does not exist.
mirror(tree, src, files, dst) ==
    IF SourceKind(tree, src) = "none" THEN [err |-> "ENOENT source"]
    ELSE IF dst \notin files /\ SubSeq(dst, 1, Len(dst) - 1) \notin files
    THEN [err |-> "ENOENT"]
    ELSE [err |-> "",
          files |-> files \cup {dst}
                    \cup (IF src[1] # "src" THEN {}
                          ELSE {dst \o SubSeq(q, Len(src), Len(q))
                                : q \in {q \in DOMAIN tree :
                                            /\ Len(q) >= Len(src)
                                            /\ SubSeq(q, 1, Len(src) - 1) = Tail(src)
                                            /\ tree[q] # "none"}})]

RenameResult_NoExistCase(goos, err, exists, cachedgoroot) ==
    IF err = "" THEN [path |-> cachedgoroot, err |-> ""]
    ELSE [path |-> "", err |-> err]

\* What GetCachedGoroot returns after os.Rename(tmpgoroot, cachedgoroot)
\* returned err, exists being what os.Stat(cachedgoroot) then finds.
RenameResult(goos, err, exists, cachedgoroot) ==
    IF err = "" THEN [path |-> cachedgoroot, err |-> ""]
    ELSE IF err = "exist" THEN [path |-> cachedgoroot, err |-> ""]
    ELSE IF goos = "windows" /\ err = "permission" /\ exists
    THEN [path |-> cachedgoroot, err |-> ""]
    ELSE [path |-> "", err |-> err]

\* The error of os.Rename onto a directory that exists and is not empty:
\* ENOTEMPTY (which is fs.ErrExist) on Unix, access denied on Windows.
RenameOntoExisting(goos) == IF goos = "windows" THEN "permission" ELSE "exist"

\* cachedgoroot: "goroot-" + the hash of the merge links.  All calls of the
\* model have the same links.
CachedGorootName == "goroot-hash"

\* The name os.MkdirTemp gives the directory of call c: one that no other
\* directory has.
TempName(c) == CachedGorootName \o ".tmp" \o FormatInt(c)

\* A call of GetCachedGoroot that has not started.
NewCall ==
    [pc |-> "start", merges |-> <<>>, dirs |-> <<>>, todo |-> {}, tmp |-> "",
     made |-> {}, path |-> "", err |-> "", lost |-> FALSE]

\* The step of call c that leaves it as call and the rest of the state as
\* the EXCEPT of cache given.
CacheStep(next) ==
    /\ cache' = next
    /\ UNCHANGED <<moduleVars, pure, links, file, usb>>

\* Lines 39-62: the override table, the merge links and their hash.
GetCachedGorootStart(c) ==
    /\ cache.state = "running" /\ c \in DOMAIN cache.call
    /\ cache.call[c].pc = "start"
    /\ \E merge \in {listGorootMergeLinks(cache.go, cache.tinygo, cache.overrides)} :
          CacheStep([cache EXCEPT !.call[c] =
                IF IsNil(merge)
                THEN [@ EXCEPT !.pc = "done", !.err = "readdir"]
                ELSE [@ EXCEPT !.pc = "lock", !.merges = merge.merges]])

\* Line 70: gorootCreateMutex.Lock()
GorootCreateMutexLock(c) ==
    /\ cache.state = "running" /\ c \in DOMAIN cache.call
    /\ cache.call[c].pc = "lock"
    /\ cache.mutex[cache.proc[c]] = 0
    /\ CacheStep([cache EXCEPT !.mutex[cache.proc[c]] = c, !.call[c].pc = "stat"])

\* Lines 73-78: the cached GOROOT exists and is returned.
StatCachedGoroot(c) ==
    /\ cache.state = "running" /\ c \in DOMAIN cache.call
    /\ cache.call[c].pc = "stat"
    /\ CacheStep([cache EXCEPT !.call[c] =
            IF CachedGorootName \in DOMAIN cache.fs
            THEN [@ EXCEPT !.pc = "unlock", !.path = CachedGorootName]
            ELSE [@ EXCEPT !.pc = "mkdirtemp"]])

\* Lines 80-105: os.MkdirAll, os.MkdirTemp (which may fail), the deferred
\* os.RemoveAll, and the sorted list of the directories to create.
MkdirTemp(c, fail) ==
    /\ cache.state = "running" /\ c \in DOMAIN cache.call
    /\ cache.call[c].pc = "mkdirtemp"
    /\ fail => cache.faults
    /\ CacheStep(
        IF fail
        THEN [cache EXCEPT !.call[c] = [@ EXCEPT !.pc = "unlock", !.err = "mkdirtemp"]]
        ELSE [cache EXCEPT
                !.fs = (TempName(c) :> {<<>>}) @@ @,
                !.call[c] = [@ EXCEPT !.pc = "build", !.tmp = TempName(c),
                                      !.made = @ \cup {TempName(c)},
                                      !.dirs = DirsToCreate(TempName(c), cache.overrides),
                                      !.todo = DOMAIN cache.call[c].merges]])

\* Lines 107-112: os.Mkdir of the next directory of the sorted list.
Mkdir(c) ==
    /\ cache.state = "running" /\ c \in DOMAIN cache.call
    /\ cache.call[c].pc = "build" /\ cache.call[c].dirs # <<>>
    /\ \E dir \in {Head(cache.call[c].dirs)}, files \in {cache.fs[cache.call[c].tmp]} :
          CacheStep(
            IF SubSeq(dir, 1, Len(dir) - 1) \notin files
            THEN [cache EXCEPT !.call[c] = [@ EXCEPT !.pc = "remove", !.err = "ENOENT"]]
            ELSE IF dir \in files
            THEN [cache EXCEPT !.call[c] = [@ EXCEPT !.pc = "remove", !.err = "EEXIST"]]
            ELSE [cache EXCEPT !.fs[cache.call[c].tmp] = @ \cup {dir},
                               !.call[c].dirs = Tail(@)])

\* Lines 115-120: for dst, src := range merge, in any order: mirror of one
\* link (which may fail for a reason of its own, such as a full disk).
Mirror(c, dst, fail) ==
    /\ cache.state = "running" /\ c \in DOMAIN cache.call
    /\ cache.call[c].pc = "build" /\ cache.call[c].dirs = <<>>
    /\ dst \in cache.call[c].todo
    /\ fail => cache.faults
    /\ \E src \in {cache.call[c].merges[dst]} :
       \E res \in {mirror(IF src.root = "go" THEN cache.go ELSE cache.tinygo,
                          src.path, cache.fs[cache.call[c].tmp], dst)} :
          CacheStep(
            IF fail
            THEN [cache EXCEPT !.call[c] = [@ EXCEPT !.pc = "remove", !.err = "io"]]
            ELSE IF res.err # ""
            THEN [cache EXCEPT !.call[c] = [@ EXCEPT !.pc = "remove", !.err = res.err]]
            ELSE [cache EXCEPT !.fs[cache.call[c].tmp] = res.files,
                               !.call[c].todo = @ \ {dst}])

\* Lines 122-142: os.Rename(tmpgoroot, cachedgoroot), which fails when
\* cachedgoroot exists and may fail for another reason, and the return.
Rename(c, fault) ==
    /\ cache.state = "running" /\ c \in DOMAIN cache.call
    /\ cache.call[c].pc = "build" /\ cache.call[c].dirs = <<>> /\ cache.call[c].todo = {}
    /\ fault # "" => cache.faults
    /\ \E exists \in {CachedGorootName \in DOMAIN cache.fs} :
       \E err \in {IF exists THEN RenameOntoExisting(cache.goos) ELSE fault} :
       \E res \in {RenameResult(cache.goos, err, exists, CachedGorootName)} :
          CacheStep([cache EXCEPT
            !.fs = IF err = ""
                   THEN [n \in (DOMAIN @ \ {cache.call[c].tmp}) \cup {CachedGorootName} |->
                            IF n = CachedGorootName THEN @[cache.call[c].tmp] ELSE @[n]]
                   ELSE @,
            !.call[c] = [@ EXCEPT !.pc = "remove", !.path = res.path, !.err = res.err,
                                  !.lost = exists]])

\* Line 94, deferred: os.RemoveAll(tmpgoroot).
RemoveAll(c) ==
    /\ cache.state = "running" /\ c \in DOMAIN cache.call
    /\ cache.call[c].pc = "remove"
    /\ CacheStep([cache EXCEPT
            !.fs = [n \in DOMAIN @ \ {cache.call[c].tmp} |-> @[n]],
            !.call[c].pc = "unlock"])

\* Line 71, deferred: gorootCreateMutex.Unlock(), and the return.
GorootCreateMutexUnlock(c) ==
    /\ cache.state = "running" /\ c \in DOMAIN cache.call
    /\ cache.call[c].pc = "unlock"
    /\ CacheStep([cache EXCEPT !.mutex[cache.proc[c]] = 0, !.call[c].pc = "done"])

\* The tree of both roots below src for a whole override table: the
\* directories of the table.
TableTree(overrides) == [p \in DOMAIN overrides |-> "dir"]

\* Two small trees: crypto and crypto/rand in both, crypto/crypto.go in Go.
SmallTree(files) ==
    [p \in TreePaths |->
        IF p \in {<<"crypto">>, <<"crypto", "rand">>} THEN "dir"
        ELSE IF p \in files THEN "file" ELSE "none"]

\* The calls of the model: their number, their processes, the operating
\* system, whether the file system fails, the override table and the trees.
CacheConfig(calls, proc, goos, faults, overrides, tinygo, go) ==
    [state |-> "running", goos |-> goos, faults |-> faults, proc |-> proc,
     mutex |-> [p \in {proc[c] : c \in calls} |-> 0],
     overrides |-> overrides, tinygo |-> tinygo, go |-> go,
     fs |-> <<>>, call |-> [c \in calls |-> NewCall]]

\* Either one call on a system that does not fail, with any table that
\* pathsToOverride returns and its tree; or two calls, of one process
\* or of two, on Unix or Windows, on a file system that may fail, with the
\* part of the table for crypto and the small trees.
InitCache ==
    /\ InitCompiler /\ pure = NoPure /\ links = NoLinks /\ file = NoFile /\ usb = NoUSB
    /\ cache \in
        {CacheConfig({1}, [c \in {1} |-> 1], "linux", FALSE,
                     overrides, TableTree(overrides), TableTree(overrides))
         : overrides \in {pathsToOverride(goMinor, needsSyscallPackage)
                           : goMinor \in {18, 19}, needsSyscallPackage \in BOOLEAN}}
        \cup
        {CacheConfig({1, 2}, proc, goos, TRUE,
                     [d \in {<<>>, <<"crypto">>, <<"crypto", "rand">>} |->
                        pathsToOverride(19, FALSE)[d]],
                     SmallTree({}), SmallTree({<<"crypto", "crypto.go">>}))
         : proc \in {[c \in {1, 2} |-> 1], [c \in {1, 2} |-> c]},
           goos \in {"linux", "windows"}}

\* The destinations a call may mirror.
LinkKeys ==
    {<<"bin">>, <<"lib">>, <<"pkg">>}
    \cup {<<"src">> \o p : p \in DOMAIN pathsToOverride(19, TRUE) \cup TreePaths}

NextCache ==
    \E c \in {1, 2} :
        \/ GetCachedGorootStart(c)
        \/ GorootCreateMutexLock(c)
        \/ StatCachedGoroot(c)
        \/ \E fail \in BOOLEAN : MkdirTemp(c, fail)
        \/ Mkdir(c)
        \/ \E dst \in LinkKeys, fail \in BOOLEAN : Mirror(c, dst, fail)
        \/ \E fault \in {"", "permission", "io"} : Rename(c, fault)
        \/ RemoveAll(c)
        \/ GorootCreateMutexUnlock(c)

\* Calls of GetCachedGoroot that run at the same time.
SpecCache == InitCache /\ [][NextCache]_vars

-----------------------------------------------------------------------------
(* The USB device: package machine (src/unnamed/part_000)                   *)
(*                                                                         *)
(* The constants of the packages usb and descriptor are written by their   *)
(* names: a request is "GET_DESCRIPTOR", a descriptor type "TypeDevice", a *)
(* descriptor set "CDCHID".  usbDescriptorConfig, a set of bits, is the set *)
(* of the names of the bits that are set.                                  *)

\* The string indexes of the device descriptor (package usb).
IMANUFACTURER == 1
IPRODUCT == 2
ISERIAL == 3

\* A packet that sendUSBPacket or SendZlp hands to an endpoint: from is
\* "descriptor" (part of a descriptor set), "string" (a string descriptor
\* built in usb_trans_buffer), "buffer" (the bytes of usb_trans_buffer) or
\* "zlp" (no data).
Packet(ep, from, set, part, bytes) ==
    [ep |-> ep, from |-> from, set |-> set, part |-> part, bytes |-> bytes]

\* What SendZlp sends: a zero-length packet on endpoint 0.
Zlp == Packet(0, "zlp", "", "", <<>>)

\* sendUSBPacket(0, data, setup.WLength) for a part of a descriptor set.
DescriptorPacket(set, part) == Packet(0, "descriptor", set, part, <<>>)

\* The interface indexes for which a descriptor set has a HID report
\* descriptor: HID[2] in the sets with a HID interface (line 312 writes
\* descriptor.CDCJoystick.HID[2]).
HIDIndexes(set) == IF set \in {"CDCHID", "CDCJoystick"} THEN {2} ELSE {}

\* The descriptor set that the switch of lines 142-151 selects.
SelectDescriptor(config) ==
    CASE "HID" \in config -> "CDCHID"
      [] "MIDI" \in config -> "CDCMIDI"
      [] "Joystick" \in config -> "CDCJoystick"
      [] OTHER -> "CDC"

\* The device state after it sent the packet p.
Send(u, p) == [u EXCEPT !.sent = Append(@, p)]

\* func sendDescriptor(setup usb.Setup)
sendDescriptor(u, setup) ==
    CASE setup.WValueH = "TypeConfiguration" ->
            Send(u, DescriptorPacket(u.usbDescriptor, "Configuration"))
      [] setup.WValueH = "TypeDevice" ->
            Send([u EXCEPT !.usbDescriptor = SelectDescriptor(u.usbDescriptorConfig)],
                 DescriptorPacket(SelectDescriptor(u.usbDescriptorConfig), "Device"))
      [] setup.WValueH = "TypeString" ->
            (CASE setup.WValueL = 0 -> Send(u, Packet(0, "buffer", "", "", <<4, 3, 9, 4>>))
               [] setup.WValueL = IPRODUCT -> Send(u, Packet(0, "string", "", "usbProduct", <<>>))
               [] setup.WValueL = IMANUFACTURER -> Send(u, Packet(0, "string", "", "usbManufacturer", <<>>))
               [] setup.WValueL = ISERIAL -> Send(u, Zlp)
               [] OTHER -> u)
      [] setup.WValueH = "TypeHIDReport" /\ setup.WIndex \in HIDIndexes(u.usbDescriptor) ->
            Send(u, Packet(0, "descriptor", u.usbDescriptor, "HID", <<setup.WIndex>>))
      [] OTHER -> Send(u, Zlp)

setConfiguration_AnyRecipient(u, setup) ==
    [u |-> Send([u EXCEPT !.initialised = DOMAIN u.endPoints,
                          !.usbConfiguration = setup.WValueL,
                          !.InitEndpointComplete = TRUE], Zlp),
     ret |-> TRUE]

\* case usb.SET_CONFIGURATION of handleStandardSetup: for the device as
\* recipient initEndpoint is called for every endpoint but endpoint 0
\* (initialised is the set of the endpoints it was called for), the value is
\* stored, InitEndpointComplete is set and a zero-length packet is sent.
setConfiguration(u, setup) ==
    IF setup.Recipient = "REQUEST_DEVICE"
    THEN [u |-> Send([u EXCEPT !.initialised = DOMAIN u.endPoints,
                               !.usbConfiguration = setup.WValueL,
                               !.InitEndpointComplete = TRUE], Zlp),
          ret |-> TRUE]
    ELSE [u |-> u, ret |-> FALSE]

\* func handleStandardSetup(setup usb.Setup) bool: the device after the
\* request and the result.  setAddress is what handleUSBSetAddress, which
\* is specific to the chip, returns after it sent its zero-length packet.
handleStandardSetup(u, setup, setAddress) ==
    CASE setup.BRequest = "GET_STATUS" ->
            [u |-> Send(u, Packet(0, "buffer", "", "",
                        <<IF setup.BmRequestType # 0 /\ u.isEndpointHalt THEN 1 ELSE 0, 0>>)),
             ret |-> TRUE]
      [] setup.BRequest = "CLEAR_FEATURE" ->
            [u |-> Send([u EXCEPT
                            !.isRemoteWakeUpEnabled = IF setup.WValueL = 1 THEN FALSE ELSE @,
                            !.isEndpointHalt = IF setup.WValueL = 0 THEN FALSE ELSE @], Zlp),
             ret |-> TRUE]
      [] setup.BRequest = "SET_FEATURE" ->
            [u |-> Send([u EXCEPT
                            !.isRemoteWakeUpEnabled = IF setup.WValueL = 1 THEN TRUE ELSE @,
                            !.isEndpointHalt = IF setup.WValueL = 0 THEN TRUE ELSE @], Zlp),
             ret |-> TRUE]
      [] setup.BRequest = "SET_ADDRESS" -> [u |-> Send(u, Zlp), ret |-> setAddress]
      [] setup.BRequest = "GET_DESCRIPTOR" -> [u |-> sendDescriptor(u, setup), ret |-> TRUE]
      [] setup.BRequest = "SET_DESCRIPTOR" -> [u |-> u, ret |-> FALSE]
      [] setup.BRequest = "GET_CONFIGURATION" ->
            [u |-> Send(u, Packet(0, "buffer", "", "", <<u.usbConfiguration>>)), ret |-> TRUE]
      [] setup.BRequest = "SET_CONFIGURATION" -> setConfiguration(u, setup)
      [] setup.BRequest = "GET_INTERFACE" ->
            [u |-> Send(u, Packet(0, "buffer", "", "", <<u.usbSetInterface>>)), ret |-> TRUE]
      [] setup.BRequest = "SET_INTERFACE" ->
            [u |-> Send([u EXCEPT !.usbSetInterface = setup.WValueL], Zlp), ret |-> TRUE]
      [] OTHER -> [u |-> u, ret |-> TRUE]

\* A setup packet.  Recipient is BmRequestType & usb.REQUEST_RECIPIENT.
Setup(bRequest, bmRequestType, wValueH, wValueL, wIndex) ==
    [BRequest |-> bRequest, BmRequestType |-> bmRequestType,
     Recipient |-> IF bmRequestType % 32 = 0 THEN "REQUEST_DEVICE" ELSE "other",
     WValueH |-> wValueH, WValueL |-> wValueL, WIndex |-> wIndex]

\* The setup packets of the host: every standard request and one that is
\* not standard; every descriptor type and one that is not known; the
\* string indexes 0 to 4 (language, manufacturer, product, serial number and
\* one that names no string); the interface indexes 0 and 2; the device (0x00, 0x80), an
\* interface (0x01) and an endpoint (0x02) as recipient; the values 0 to 2.
Setups ==
    {Setup("GET_DESCRIPTOR", 128, h, 0, 0)
        : h \in {"TypeDevice", "TypeConfiguration", "TypeDeviceQualifier", "TypeOther"}}
    \cup {Setup("GET_DESCRIPTOR", 128, "TypeString", l, 0) : l \in 0..4}
    \cup {Setup("GET_DESCRIPTOR", 129, "TypeHIDReport", 0, i) : i \in {0, 2}}
    \cup {Setup("SET_CONFIGURATION", t, "", l, 0) : t \in {0, 1}, l \in 0..2}
    \cup {Setup("SET_INTERFACE", 1, "", l, 0) : l \in 0..2}
    \cup {Setup(r, 128, "", 0, 0) : r \in {"GET_CONFIGURATION", "GET_INTERFACE"}}
    \cup {Setup("GET_STATUS", t, "", 0, 0) : t \in {128, 130}}
    \cup {Setup(r, 0, "", l, 0) : r \in {"CLEAR_FEATURE", "SET_FEATURE"}, l \in 0..2}
    \cup {Setup(r, 0, "", 0, 0) : r \in {"SET_ADDRESS", "SET_DESCRIPTOR", "SYNCH_FRAME"}}

\* The package variables at program start (lines 12-34, 90-98, 121-130),
\* and what the host has sent: host.configuration is the value of its last
\* SET_CONFIGURATION to the device (0 before the first, and configured
\* tells whether there was one), host.interface that of its last
\* SET_INTERFACE.  setup, ret and sent are the last request handled, its
\* result and the packets sent for it, while no other function has run.
InitUSBDevice ==
    [state |-> "on",
     InitEndpointComplete |-> FALSE,
     usbDescriptor |-> "CDC",
     usbDescriptorConfig |-> {"CDC"},
     isEndpointHalt |-> FALSE, isRemoteWakeUpEnabled |-> FALSE,
     usbConfiguration |-> 0, usbSetInterface |-> 0,
     endPoints |-> [e \in {"CDC_ENDPOINT_ACM", "CDC_ENDPOINT_OUT", "CDC_ENDPOINT_IN"} |-> "enabled"]
                   @@ [e \in {"HID_ENDPOINT_IN", "HID_ENDPOINT_OUT", "MIDI_ENDPOINT_IN",
                              "MIDI_ENDPOINT_OUT"} |-> "ENDPOINT_TYPE_DISABLE"],
     handlers |-> [h \in {} |-> ""],
     initialised |-> {},
     host |-> [configuration |-> 0, configured |-> FALSE, interface |-> 0],
     setup |-> Setup("", 0, "", 0, 0), ret |-> TRUE, sent |-> <<>>]

\* What the host has sent, after the setup packet.
HostAfter(host, setup) ==
    CASE setup.BRequest = "SET_CONFIGURATION" /\ setup.BmRequestType % 32 = 0 ->
            [host EXCEPT !.configuration = setup.WValueL, !.configured = TRUE]
      [] setup.BRequest = "SET_INTERFACE" -> [host EXCEPT !.interface = setup.WValueL]
      [] OTHER -> host

\* The device when no request is being answered.
NoRequest(u) == [u EXCEPT !.setup = Setup("", 0, "", 0, 0), !.ret = TRUE, !.sent = <<>>]

USBStep(next) ==
    /\ usb' = next
    /\ UNCHANGED <<moduleVars, pure, links, file, cache>>

\* The interrupt handler of the chip got a standard setup packet on
\* endpoint 0 and calls handleStandardSetup.
HandleStandardSetup(setup, setAddress) ==
    /\ usb.state = "on"
    /\ \E r \in {handleStandardSetup([usb EXCEPT !.sent = <<>>], setup, setAddress)} :
          USBStep([r.u EXCEPT
                    !.setup = setup, !.ret = r.ret,
                    !.host = HostAfter(@, setup)])

\* func EnableCDC
EnableCDC ==
    /\ usb.state = "on"
    /\ USBStep([NoRequest(usb) EXCEPT
            !.usbDescriptorConfig = @ \cup {"CDC"},
            !.endPoints = [e \in {"CDC_ENDPOINT_ACM", "CDC_ENDPOINT_OUT", "CDC_ENDPOINT_IN"}
                             |-> "enabled"] @@ @,
            !.handlers = [h \in {"usbRxHandler[CDC_ENDPOINT_OUT]", "usbTxHandler[CDC_ENDPOINT_IN]",
                                 "usbSetupHandler[CDC_ACM_INTERFACE]"} |-> "CDC"]
                         @@ ("usbSetupHandler[CDC_DATA_INTERFACE]" :> "nil") @@ @])

\* func EnableHID
EnableHID ==
    /\ usb.state = "on"
    /\ USBStep([NoRequest(usb) EXCEPT
            !.usbDescriptorConfig = @ \cup {"HID"},
            !.endPoints = ("HID_ENDPOINT_IN" :> "enabled") @@ @,
            !.handlers = [h \in {"usbTxHandler[HID_ENDPOINT_IN]", "usbSetupHandler[HID_INTERFACE]"}
                            |-> "HID"] @@ @])

\* func EnableMIDI
EnableMIDI ==
    /\ usb.state = "on"
    /\ USBStep([NoRequest(usb) EXCEPT
            !.usbDescriptorConfig = @ \cup {"MIDI"},
            !.endPoints = [e \in {"MIDI_ENDPOINT_OUT", "MIDI_ENDPOINT_IN"} |-> "enabled"] @@ @,
            !.handlers = [h \in {"usbRxHandler[MIDI_ENDPOINT_OUT]", "usbTxHandler[MIDI_ENDPOINT_IN]"}
                            |-> "MIDI"] @@ @])

\* func EnableJoystick: nothing changes when FindClassHIDType finds no
\* joystick class in the configuration descriptor.
EnableJoystick(found) ==
    /\ usb.state = "on"
    /\ USBStep(IF ~found THEN NoRequest(usb)
               ELSE [NoRequest(usb) EXCEPT
                        !.usbDescriptorConfig = @ \cup {"Joystick"},
                        !.endPoints = [e \in {"HID_ENDPOINT_OUT", "HID_ENDPOINT_IN"}
                                         |-> "enabled"] @@ @,
                        !.handlers = [h \in {"usbRxHandler[HID_ENDPOINT_OUT]",
                                             "usbTxHandler[HID_ENDPOINT_IN]",
                                             "usbSetupHandler[HID_INTERFACE]"} |-> "Joystick"] @@ @])

InitUSB ==
    /\ InitCompiler /\ pure = NoPure /\ links = NoLinks /\ file = NoFile /\ cache = NoCache
    /\ usb = InitUSBDevice

NextUSB ==
    \/ \E setup \in Setups, setAddress \in BOOLEAN : HandleStandardSetup(setup, setAddress)
    \/ EnableCDC
    \/ EnableHID
    \/ EnableMIDI
    \/ \E found \in BOOLEAN : EnableJoystick(found)

\* The device from program start: classes are enabled and the host sends
\* standard requests, in any order.
SpecUSB == InitUSB /\ [][NextUSB]_vars

-----------------------------------------------------------------------------
(* Properties *)

\* The positions of the descriptor globals in the module.
Descriptors(gs) == {i \in 1..Len(gs) : gs[i].cls = "descriptor"}

\* The descriptor globals of the module, in emission order.
DescriptorSeq(gs) == SelectSeq(gs, LAMBDA g : g.cls = "descriptor")

\* The number of globals of the module with the given name.
CountNamed(gs, name) == Cardinality({i \in 1..Len(gs) : gs[i].name = name})

\* The value of the field with the given name in an initialised global.
Slot(g, field) == g.init[CHOOSE i \in 1..Len(g.layout) : g.layout[i] = field]

\* The type has a non-empty method set and is not an interface.
MethodSetBearing(typ) == Len(MethodSet(typ)) > 0 /\ Underlying(typ).k # "Interface"

\* C1 (state part): the module has one descriptor global per TypeKey, and
\* every getTypeCode call returned an address in the one descriptor global
\* named after the TypeKey of its type, the same address for the same type.
C1_OnePerKey ==
    /\ \A i \in Descriptors(globals) : CountNamed(globals, globals[i].name) = 1
    /\ \A i \in 1..Len(returned) :
          /\ returned[i].addr.g = "reflect/types.type:" \o getTypeCodeName(returned[i].typ)
          /\ CountNamed(globals, returned[i].addr.g) = 1
          /\ \A j \in 1..Len(returned) :
                returned[i].typ = returned[j].typ => returned[i].addr = returned[j].addr

\* C1 (step part): a getTypeCode call that finds the descriptor of its type in
\* the module adds no descriptor and changes none; when it is the call of a
\* top-level operation, the module does not change at all.
C1_MemoStep ==
    (Len(returned') = Len(returned) + 1 /\ returned'[Len(returned')].how # "first")
    => /\ DescriptorSeq(globals') = DescriptorSeq(globals)
       /\ stack = <<>> => (globals' = globals /\ functions' = functions)

\* C1: descriptor(T) is idempotent and memoized: after any sequence of
\* descriptor, make-interface, type-assert and method-set requests the module
\* holds exactly one descriptor global per TypeKey, every call for the same
\* type returns the same address, and a call for a type whose descriptor
\* already exists adds no global and changes no initializer.
C1_Memoized == [](C1_OnePerKey) /\ [][C1_MemoStep]_vars

\* C1 witness: a second top-level request for a type found its finished
\* descriptor.
C1_Witness ==
    /\ Idle /\ ops = 2
    /\ \E i, j \in 1..Len(returned) :
          /\ i < j /\ j = Len(returned)
          /\ returned[i].typ = returned[j].typ
          /\ returned[i].how = "first" /\ returned[j].how = "memo"

\* C2: TypeKey is injective on type identity: key(T1) = key(T2) if and only
\* if T1 and T2 are identical types.
C2_Injective ==
    pure.op = "name" => (pure.n1 = pure.n2 <=> pure.t1 = pure.t2)

\* A frame of every type on the stack has its global in the module, not yet
\* initialised, and no two frames build the same TypeKey.
C3_RegisteredBeforeRecursion ==
    /\ \A i \in 1..Len(stack) :
          /\ ~IsNil(TypeCodeGlobal(globals, stack[i].typ))
          /\ ~TypeCodeGlobal(globals, stack[i].typ).hasInit
    /\ \A i, j \in 1..Len(stack) :
          getTypeCodeName(stack[i].typ) = getTypeCodeName(stack[j].typ) => i = j
    /\ Len(stack) = Cardinality({i \in Descriptors(globals) : ~globals[i].hasInit})

\* The descriptors of A and B are finished and no getTypeCode call is active.
C3_BothBuilt ==
    /\ stack = <<>>
    /\ ~IsNil(TypeCodeGlobal(globals, TA)) /\ TypeCodeGlobal(globals, TA).hasInit
    /\ ~IsNil(TypeCodeGlobal(globals, TB)) /\ TypeCodeGlobal(globals, TB).hasInit

\* The descriptor of named type t refers to the descriptor of u through the
\* descriptor of its underlying pointer type *u.
C3_RefersThroughPointer(t, u) ==
    LET dt == TypeCodeGlobal(globals, t)
        dp == TypeCodeGlobal(globals, Pointer(u))
    IN /\ Slot(dt, "underlying") = Addr(DescriptorName(Pointer(u)), 0)
       /\ ~IsNil(dp) /\ dp.hasInit
       /\ Slot(dp, "elementType") = Addr(DescriptorName(u), 0)

RECURSIVE TypeClosure(_)
\* The types getTypeCode can be called for, directly or by recursion, when
\* it is asked for the types of S.
TypeClosure(S) ==
    LET N == S \cup {c.typ : c \in UNION {{TypeCodeCalls(t)[i] : i \in 1..Len(TypeCodeCalls(t))} : t \in S}}
    IN IF N = S THEN S ELSE TypeClosure(N)

\* The TypeKeys of the types the program can ask descriptors for.
ReachableKeys == {getTypeCodeName(t) : t \in TypeClosure(RootTypes \cup ConcreteTypes)}

\* The number of reachable TypeKeys that have no descriptor global yet.
Unregistered(gs) == Cardinality(ReachableKeys) - Cardinality(Descriptors(gs))

RECURSIVE Work(_)
\* The recursive calls the active getTypeCode calls still have to make, plus
\* one return for each.
Work(stk) == IF stk = <<>> THEN 0 ELSE Len(Head(stk).todo) + 1 + Work(Tail(stk))

\* Every step of a getTypeCode call registers the global of a TypeKey that
\* had none, or else leaves less work to the active calls.
C3_Progress ==
    stack' # stack =>
        \/ Unregistered(globals') < Unregistered(globals)
        \/ Unregistered(globals') = Unregistered(globals) /\ Work(stack') < Work(stack)

KindName(u) ==
    CASE u.k = "Basic" -> u.kind
      [] u.k = "Signature" -> "Func"
      [] OTHER -> u.k

\* C4: MetaByte law: meta & 31 is the kind code of T's underlying kind, the
\* value of the runtime's reflect Kind constant (1..26, never 0); meta & 32
\* is set if and only if T is a named type; the kind code never overlaps the
\* named bit.
C4_MetaByteLaw ==
    pure.op = "kind" =>
        /\ And8(pure.meta, 31) = Kind(KindName(Underlying(pure.t1)))
        /\ And8(pure.meta, 31) \in 1..26
        /\ (And8(pure.meta, flagNamed) # 0) <=> (pure.t1.k = "Named")
        /\ And8(pure.kind, flagNamed) = 0
        /\ pure.kind = And8(pure.meta, 31)
        /\ pure.meta \in 0..255

\* C4 witness: the metadata byte of the named struct type T.
C4_Witness == pure.op = "kind" /\ pure.t1 = TT /\ pure.meta = 58

\* C5: every address returned by getTypeCode (first call, memoized call, or
\* re-entrant call made while the descriptor is being built) points at the
\* meta byte: for a method-set-bearing type it is the global's address plus
\* one pointer slot and the slot before it holds the method-set pointer; for
\* any other type it is the head of the global.
C5_PointsAtMeta ==
    \A i \in 1..Len(returned) :
        LET r == returned[i]
            g == NamedGlobal(globals, r.addr.g)
        IN /\ ~IsNil(g)
           /\ r.addr.idx + 1 \in 1..Len(g.layout)
           /\ g.layout[r.addr.idx + 1] = "kind"
           /\ g.hasInit => g.init[r.addr.idx + 1] = [int |-> MetaByte(r.typ)]
           /\ IF MethodSetBearing(r.typ)
              THEN /\ r.addr.idx = 1
                   /\ g.layout[1] = "methodSet"
                   /\ g.hasInit =>
                        /\ g.init[1] = Addr(TypeString(r.typ) \o "$methodset", 0)
                        /\ NamedGlobal(globals, g.init[1].g).cls = "methodset"
              ELSE r.addr.idx = 0

\* C5 witness: a re-entrant call for a method-set-bearing type returned
\* while the descriptor of that type was being built.
C5_Witness ==
    \E i \in 1..Len(returned) :
        /\ returned[i].how = "reentrant"
        /\ MethodSetBearing(returned[i].typ)
        /\ returned[i].addr.idx = 1

\* C6: for any non-pointer, non-interface type with a method set of size
\* > 0, after its descriptor is synthesized exactly one MethodSet global
\* exists for it and the descriptor's method-set slot points to it; a type
\* whose underlying type is an interface, or whose method set is empty, gets
\* a descriptor with no method-set slot.
C6_MethodSetSlot ==
    \A i \in Descriptors(globals) :
        LET g == globals[i]
            typ == g.typ
            hasSlot == \E j \in 1..Len(g.layout) : g.layout[j] = "methodSet"
        IN /\ (typ.k # "Pointer" /\ MethodSetBearing(typ) /\ g.hasInit) =>
                /\ hasSlot
                /\ g.layout[1] = "methodSet"
                /\ g.init[1] = Addr(TypeString(typ) \o "$methodset", 0)
                /\ CountNamed(globals, TypeString(typ) \o "$methodset") = 1
                /\ NamedGlobal(globals, g.init[1].g).cls = "methodset"
                /\ NamedGlobal(globals, g.init[1].g).typ = typ
           /\ (Underlying(typ).k = "Interface" \/ Len(MethodSet(typ)) = 0) => ~hasSlot

\* C6 witness: the finished descriptors of the struct type T, which has a
\* method, and of the interface type io.Closer.
C6_Witness ==
    /\ ~IsNil(TypeCodeGlobal(globals, TT)) /\ TypeCodeGlobal(globals, TT).hasInit
    /\ ~IsNil(TypeCodeGlobal(globals, TCloser)) /\ TypeCodeGlobal(globals, TCloser).hasInit

\* C7: MethodSet well-formedness: count is the number of methods of the
\* type's method set, signatureTable and wrapperTable have count entries,
\* signatureTable[i] is the signature token of method[i] and wrapperTable[i]
\* the wrapper (or raw function) of that same method[i], in the method
\* set's order.
C7_MethodSetWellFormed ==
    \A i \in 1..Len(globals) :
        globals[i].cls = "methodset" =>
            LET g == globals[i]
                ms == MethodSet(g.typ)
                sigs == g.init[2].arr
                wraps == g.init[3].fns
            IN /\ g.init[1] = [int |-> Len(ms)]
               /\ Len(sigs) = Len(ms)
               /\ Len(wraps) = Len(ms)
               /\ \A n \in 1..Len(ms) :
                    LET link == "(" \o TypeString(g.typ) \o ")." \o ms[n].name IN
                    /\ sigs[n] = Addr(getMethodSignatureName(ms[n]), 0)
                    /\ NamedGlobal(globals, sigs[n].g).cls = "signature"
                    /\ wraps[n] \in {link, link \o "$invoke"}
                    /\ ~IsNil(NamedFunction(functions, wraps[n]))
                    /\ NamedFunction(functions, wraps[n]).sig = ms[n].sig

\* C7 witness: the method set of *T, which has the two methods Close and
\* Read.
C7_Witness ==
    \E i \in 1..Len(globals) :
        /\ globals[i].cls = "methodset"
        /\ globals[i].typ = Pointer(TT)
        /\ Len(globals[i].init[3].fns) = 2

\* C8: in the code emitted for a concrete type assertion the unpack of the
\* opaque pointer is executed only when the ok flag is true: an execution in
\* which typeAssert returns false goes from the block of the check straight
\* to the merge block.
C8_UnpackOnlyOnOk ==
    (exec.state # "idle" /\ ~IsInterfaceAssert(ir.at)) =>
        /\ exec.unpacked => exec.ok
        /\ ~exec.ok => exec.path \in {<<"entry">>, <<"entry", "typeassert.next">>}
        /\ ~exec.ok => exec.valueOk = None

\* C8 witness: a failed concrete type assertion ran to its end.
C8_Witness ==
    /\ exec.state = "done" /\ ~IsInterfaceAssert(ir.at)
    /\ ~exec.ok /\ exec.path = <<"entry", "typeassert.next">>

\* C9: for an interface value built by make-interface from a value of
\* concrete type T and a concrete asserted type U, the emitted call
\* typeAssert(descriptor of T, typeid token of U) is true if and only if
\* key(T) = key(U); the token is the global reflect/types.typeid:<key(U)> and
\* the descriptor is reflect/types.type:<key(T)>.
C9_ConcreteAssert ==
    (exec.state # "idle" /\ ~IsInterfaceAssert(ir.at)) =>
        LET check == ir.blocks["entry"][2] IN
        /\ exec.ok <=> (getTypeCodeName(itf.typ) = getTypeCodeName(ir.at))
        /\ check.fn = "runtime.typeAssert"
        /\ check.args[2] = "reflect/types.typeid:" \o getTypeCodeName(ir.at)
        /\ CountNamed(globals, check.args[2]) = 1
        /\ exec.typecode.g = "reflect/types.type:" \o getTypeCodeName(itf.typ)
        /\ ~IsNil(NamedGlobal(globals, exec.typecode.g))

\* C9 witness: an assertion to the type the interface value was made from
\* succeeded.
C9_Witness ==
    /\ exec.state = "done" /\ ~IsInterfaceAssert(ir.at)
    /\ exec.ok /\ itf.typ = ir.at

\* The value a finished execution of the type assert produced.
AssertedValue == IF ir.commaOk THEN exec.result.value ELSE exec.result

\* C10: the value of a type assertion is determined by the ok flag: when ok
\* is false it is the zero value of the asserted type (the zero interface
\* value for an interface assertion); when ok is true it is the unpacked
\* concrete value for a concrete asserted type and the interface value x
\* itself for an interface asserted type.
C10_ValueByOk ==
    exec.state = "done" =>
        IF ~exec.ok THEN AssertedValue = ConstNull(ir.at)
        ELSE IF IsInterfaceAssert(ir.at) THEN AssertedValue = exec.x
        ELSE /\ exec.unpacked
             /\ AssertedValue = exec.valueOk
             /\ AssertedValue = [typ |-> ir.at, v |-> emitPointerUnpack(heap, exec.x.value, ir.at)]
             /\ AssertedValue # ConstNull(ir.at)

\* C10 witness: a successful concrete assertion produced the value that was
\* put into the interface.
C10_Witness ==
    /\ exec.state = "done" /\ exec.ok /\ ~IsInterfaceAssert(ir.at)
    /\ AssertedValue.v = itf.v /\ itf.v > 0

\* The positions in basic block b of the emitted type assert of the calls
\* to runtime.interfaceTypeAssert.
PanicChecks(b) ==
    {i \in 1..Len(ir.blocks[b]) :
        ir.blocks[b][i].op = "call" /\ ir.blocks[b][i].fn = "runtime.interfaceTypeAssert"}

\* C11: comma-ok handling: a comma-ok assertion returns the tuple {phi, ok}
\* and emits no interfaceTypeAssert call, so it never panics; any other
\* assertion emits exactly one interfaceTypeAssert(ok) call, in the block
\* that both the success and the failure path run and before the value is
\* returned, so that an execution whose check failed has reached the panic
\* check.
C11_CommaOk ==
    ir.valid =>
        IF ir.commaOk
        THEN /\ \A b \in DOMAIN ir.blocks : PanicChecks(b) = {}
             /\ exec.state = "done" =>
                    /\ exec.result = [value |-> exec.phi, ok |-> exec.ok]
                    /\ ~exec.asserted /\ ~exec.panicked
        ELSE /\ PanicChecks("entry") = {} /\ PanicChecks("typeassert.ok") = {}
             /\ Cardinality(PanicChecks("typeassert.next")) = 1
             /\ \A i \in PanicChecks("typeassert.next") :
                    /\ ir.blocks["typeassert.next"][i].args = <<"commaOk">>
                    /\ \A j \in 1..Len(ir.blocks["typeassert.next"]) :
                          ir.blocks["typeassert.next"][j].op = "result" => i < j
             /\ exec.state = "done" =>
                    /\ exec.asserted
                    /\ exec.result = exec.phi

\* C11 witness: an assertion without comma-ok ran on a value of another
\* type and reached the panic check on the failure path.
C11_Witness ==
    /\ ir.valid /\ ~ir.commaOk
    /\ exec.state = "done" /\ ~exec.ok /\ exec.asserted
    /\ exec.path = <<"entry", "typeassert.next">>

\* The function that the check of the emitted interface type assert calls.
TypeAssertCallee == NamedFunction(functions, ir.blocks["entry"][2].fn)

\* C12: for every interface type assertion x.(AT), whatever was lowered
\* earlier in the module, the declared-only placeholder <key(AT)>.$typeassert
\* that the assertion calls carries a tinygo-methods attribute equal to the
\* signature-token names of AT's methods in canonical order.
C12_MethodsAttribute ==
    (ir.valid /\ IsInterfaceAssert(ir.at)) =>
        /\ ~IsNil(TypeAssertCallee)
        /\ TypeAssertCallee.name = getTypeCodeName(Underlying(ir.at)) \o ".$typeassert"
        /\ ~TypeAssertCallee.defined
        /\ TypeAssertCallee.attrs =
              <<[key |-> "tinygo-methods",
                 value |-> getMethodsString(Underlying(ir.at))]>>

\* The thunk that the last lowered interface method call targets.
InvokeThunk == NamedFunction(functions, invoke.fn)

\* C13: for every dynamic dispatch x.M(args) on static interface type I,
\* whatever was lowered earlier in the module, the invoke thunk that the
\* call targets is named <key(I)>.<M.Name>$invoke, is declared only, and
\* carries tinygo-invoke equal to the signature-token name of M and
\* tinygo-methods equal to the signature-token names of all of I's methods.
C13_InvokeThunk ==
    invoke.valid =>
        /\ invoke.fn = getTypeCodeName(Underlying(invoke.typ)) \o "."
                           \o invoke.method.name \o "$invoke"
        /\ ~IsNil(InvokeThunk)
        /\ ~InvokeThunk.defined
        /\ InvokeThunk.attrs =
              <<[key |-> "tinygo-invoke",
                 value |-> getMethodSignatureName(invoke.method)],
                [key |-> "tinygo-methods",
                 value |-> getMethodsString(Underlying(invoke.typ))]>>

\* C14: a signature token is the identity of a method's name and signature
\* shape: two methods are assigned the same signature-token global if and
\* only if they have the same name and identical signatures (same parameter
\* and result types, same variadic-ness) and, when the name is unexported,
\* the same owning package.
C14_TokenIdentity ==
    pure.op = "token" =>
        (pure.g1 = pure.g2 <=>
            /\ pure.m1.name = pure.m2.name
            /\ pure.m1.sig = pure.m2.sig
            /\ IsExported(pure.m1.name) \/ pure.m1.pkg = pure.m2.pkg)

\* C15: wrapper transparency: for every value-receiver method M on T, calling
\* the generated invoke wrapper with the pointer pack of a receiver value r,
\* plus arguments a, calls the concrete method exactly once with receiver r
\* and the arguments a in the same order, and returns exactly its return
\* value, or returns void when M returns nothing.
C15_WrapperTransparent ==
    wrun.state = "done" =>
        /\ Len(wrun.calls) = 1
        /\ wrun.wrapper = wrun.calls[1].fn \o "$invoke"
        /\ wrun.calls[1].args = <<wrun.r>> \o wrun.args
        /\ wrun.result = IF Len(wrun.sig.results) = 0
                         THEN [void |-> TRUE] ELSE [value |-> wrun.res]

\* C15 witness: the wrapper of (P).Scale, whose receiver is boxed, was called
\* with a receiver and two different arguments.
C15_Witness ==
    /\ wrun.state = "done" /\ wrun.boxed
    /\ wrun.r = 1 /\ Len(wrun.args) = 2 /\ wrun.args[1] # wrun.args[2]
    /\ wrun.result = [value |-> wrun.res]

\* C16 (tuple): the interface value is {descriptor(T), pack(v)}: v itself in
\* the pointer word when T fits in one word, else a heap slot that holds v.
C16_Tuple ==
    itf.valid =>
        /\ itf.typecode = TypeCodeResult(itf.typ)
        /\ IF FitsInPointer(itf.typ)
           THEN itf.value = [boxed |-> FALSE, bits |-> itf.v]
           ELSE /\ itf.value.boxed
                /\ itf.value.bits \in 1..Len(heap)
                /\ heap[itf.value.bits] = itf.v

\* C16 (extract): the emitted assert to the type T of the value in the
\* interface unpacks a value equal to v.
C16_Extract ==
    (exec.state = "done" /\ ir.at = itf.typ) =>
        /\ exec.unpacked
        /\ exec.valueOk = [typ |-> itf.typ, v |-> itf.v]
        /\ AssertedValue = [typ |-> itf.typ, v |-> itf.v]

\* C16 (fresh slot): a step that changes the heap appends one slot, the one
\* the interface value being made points to, and changes no other slot.
C16_FreshSlot ==
    heap' # heap =>
        /\ Len(heap') = Len(heap) + 1
        /\ SubSeq(heap', 1, Len(heap)) = heap
        /\ \E x \in {IF pending'.op = "makeInterface" THEN pending' ELSE itf'} :
              /\ x.value = [boxed |-> TRUE, bits |-> Len(heap')]
              /\ heap'[Len(heap')] = x.v
              /\ ~FitsInPointer(x.typ)

C17_NothingEmitted ==
    /\ failure \in {"", "cannot find function: (main.Q).Run", "unknown type",
                    "unknown type: ()"}
    /\ \A i \in 1..Len(globals) :
          /\ globals[i].cls = "methodset" =>
                \A j \in 1..Len(MethodSet(globals[i].typ)) :
                    MethodValue(globals[i].typ, MethodSet(globals[i].typ)[j]).linkName
                        \notin MissingFunctions
          /\ (globals[i].cls = "descriptor" /\ globals[i].hasInit) =>
                /\ ~UnknownKind(globals[i].typ)
                /\ And8(Slot(globals[i], "kind").int, 31) \in 1..26
    /\ \A i \in 1..Len(returned) :
          /\ ~UnknownType(returned[i].typ) /\ ~UnknownKind(returned[i].typ)
          /\ \A j \in 1..Len(MethodSet(returned[i].typ)) :
                (returned[i].how = "first" /\ Underlying(returned[i].typ).k # "Interface") =>
                    MethodValue(returned[i].typ, MethodSet(returned[i].typ)[j]).linkName
                        \notin MissingFunctions

\* C17: failures are fatal: a method without a concrete function aborts the
\* materialization of the method set with a panic that names the function,
\* and the method-set global is not registered; a type of unknown kind that
\* reaches the type namer or the kind encoder aborts the synthesis with a
\* panic, and no descriptor with kind 0 is emitted; after a panic the
\* compilation takes no further step.
C17_Fatal == []C17_NothingEmitted /\ [][failure = ""]_vars

\* C17 witness: the method set of Q was requested, Run has no function,
\* and the compilation stopped with the panic that names it, after the
\* signature global of Run was added and without a method-set global.
C17_Witness ==
    /\ failure = "cannot find function: (main.Q).Run"
    /\ ~IsNil(NamedGlobal(globals, getMethodSignatureName(MethodSet(TQ)[1])))
    /\ IsNil(NamedGlobal(globals, TypeString(TQ) \o "$methodset"))

\* Every initialised struct descriptor holds numFields field records in
\* declaration order; record i refers to the descriptor of the type of field
\* i and to a data blob that is the flags byte, the field name, NUL and the
\* tag when the tag is not empty, and then the bytes of terminator.  The
\* flags byte has bit 0 set iff the field is embedded, bit 1 iff it has a
\* non-empty tag, bit 2 iff its name is exported, and no other bit.
FieldRecordsHold(terminator) ==
    \A d \in 1..Len(globals) :
        (globals[d].cls = "descriptor" /\ globals[d].typ.k = "Struct" /\ globals[d].hasInit) =>
            LET g == globals[d]
                fields == g.typ.fields
                recs == g.init[Len(g.init)].arr
            IN /\ g.layout[Len(g.layout)] = "fields"
               /\ g.init[Len(g.init) - 2] = [int |-> Len(fields)]
               /\ Len(recs) = Len(fields)
               /\ \A i \in 1..Len(fields) :
                    LET blob == NamedGlobal(globals, recs[i].data.g)
                        flags == (IF fields[i].embedded THEN 1 ELSE 0)
                                 + (IF fields[i].tag # "" THEN 2 ELSE 0)
                                 + (IF IsExported(fields[i].name) THEN 4 ELSE 0)
                    IN /\ recs[i].fieldType = TypeCodeResult(fields[i].typ)
                       /\ recs[i].data.idx = 0
                       /\ ~IsNil(blob) /\ blob.cls = "fielddata" /\ blob.constant
                       /\ blob.name = g.name \o "." \o fields[i].name
                       /\ blob.init[1].blob =
                            <<flags, fields[i].name>>
                            \o (IF fields[i].tag # "" THEN <<0, fields[i].tag>> ELSE <<>>)
                            \o terminator

\* C18 as stated: the struct descriptor holds numFields field records in
\* declaration order, and the data blob of record i is exactly
\* flags || name || (NUL || tag when the tag is non-empty), with flag bit 0
\* for embedded, bit 1 for has-tag, bit 2 for exported.
C18_ExactBlob == FieldRecordsHold(<<>>)

\* C18, amended: the same, and the data blob of record i is
\* flags || name || (NUL || tag when the tag is non-empty) followed by one
\* terminating NUL byte.
C18_FieldRecords == FieldRecordsHold(<<0>>)

\* C18 witness: the descriptors of struct{X int; y string "json:\"y\""} and
\* of struct{T} are initialised; their blobs are 0b100 "X" NUL,
\* 0b010 "y" NUL tag NUL and 0b101 "T" NUL.
C18_Witness ==
    /\ ~IsNil(TypeCodeGlobal(globals, StructXY)) /\ TypeCodeGlobal(globals, StructXY).hasInit
    /\ NamedGlobal(globals, FieldDataName(StructXY, 1)).init[1].blob = <<4, "X", 0>>
    /\ NamedGlobal(globals, FieldDataName(StructXY, 2)).init[1].blob
            = <<2, "y", 0, "json:\"y\"", 0>>
    /\ \E d \in 1..Len(globals) :
          /\ globals[d].cls = "fielddata" /\ globals[d].typ # StructXY
          /\ globals[d].init[1].blob = <<5, "T", 0>>

\* C19 as stated: after any sequence of lowering operations every global of
\* the module (descriptor, struct-field data blob, type-identity token,
\* method set, signature token) has link-once-ODR linkage, every descriptor
\* and token is global-constant, and every signature token and method set is
\* unnamed-address.
C19_AllLinkOnce ==
    Idle =>
        \A i \in 1..Len(globals) :
            /\ globals[i].linkage = "linkonce_odr"
            /\ globals[i].cls \in {"descriptor", "typeid", "signature"} => globals[i].constant
            /\ globals[i].cls \in {"signature", "methodset"} => globals[i].unnamedAddr

\* C19, amended: after any sequence of lowering operations every descriptor,
\* method set and signature token has link-once-ODR linkage and an
\* initializer, every struct-field data blob has internal linkage, and every
\* type-identity token is a declaration with external linkage; every global
\* is global-constant; method sets and data blobs are unnamed-address, and
\* descriptors, signature tokens and type-identity tokens are not.
C19_Linkage ==
    \A i \in 1..Len(globals) :
        LET g == globals[i] IN
        /\ g.cls \in {"descriptor", "fielddata", "typeid", "methodset", "signature"}
        /\ g.cls = "descriptor" =>
              /\ Idle => g.hasInit
              /\ g.hasInit => /\ g.linkage = "linkonce_odr" /\ g.constant
                              /\ ~g.unnamedAddr /\ g.align = PointerSize
        /\ g.cls = "methodset" =>
              g.hasInit /\ g.linkage = "linkonce_odr" /\ g.constant /\ g.unnamedAddr
        /\ g.cls = "signature" =>
              g.hasInit /\ g.linkage = "linkonce_odr" /\ g.constant /\ ~g.unnamedAddr
        /\ g.cls = "fielddata" =>
              g.hasInit /\ g.linkage = "internal" /\ g.constant /\ g.unnamedAddr
        /\ g.cls = "typeid" =>
              ~g.hasInit /\ g.linkage = "external" /\ g.constant /\ ~g.unnamedAddr

\* C19 witness: after two operations the module has a global of each of the
\* five classes.
C19_Witness ==
    /\ Idle /\ ops = 2
    /\ \A c \in {"descriptor", "fielddata", "typeid", "methodset", "signature"} :
          \E i \in 1..Len(globals) : globals[i].cls = c

\* The keys of the returned map that link a regular file directly into the
\* directory dir of the merged src.
FileLinksIn(dir) ==
    {k \in DOMAIN links.merges :
        /\ Len(k) = Len(dir) + 2 /\ k[1] = "src" /\ SubSeq(k, 2, Len(k) - 1) = dir
        /\ (IF links.merges[k].root = "go" THEN links.go ELSE links.tinygo)[Tail(k)] = "file"}

\* C20: package replacement in the merged GOROOT is never partial: in the
\* map that listGorootMergeLinks returns, the regular files linked directly
\* into one directory all come from the same root, and from Go only when
\* TinyGo has no file in that directory; a directory that is not merged is
\* linked as a whole from TinyGo and nothing is linked into it from Go; and
\* no entry that is a key of the override table is linked from the Go root.
C20_NeverPartial ==
    links.state = "done" =>
        /\ \A dir \in OverrideDirs :
              /\ \A k1, k2 \in FileLinksIn(dir) :
                    links.merges[k1].root = links.merges[k2].root
              /\ \A k \in FileLinksIn(dir) :
                    links.merges[k].root = "go" =>
                        ~\E p \in TreePaths :
                            /\ Len(p) = Len(dir) + 1 /\ SubSeq(p, 1, Len(dir)) = dir
                            /\ links.tinygo[p] = "file"
        /\ \A dir \in DOMAIN links.overrides :
              ~links.overrides[dir] =>
                  /\ <<"src">> \o dir \in DOMAIN links.merges
                  /\ links.merges[<<"src">> \o dir] = Link("tinygo", <<"src">> \o dir)
                  /\ \A k \in DOMAIN links.merges :
                        (Len(k) = Len(dir) + 2 /\ SubSeq(k, 1, Len(k) - 1) = <<"src">> \o dir)
                            => links.merges[k].root = "tinygo"
        /\ \A k \in DOMAIN links.merges :
              (k[1] = "src" /\ links.merges[k].root = "go") =>
                  /\ Tail(k) \notin DOMAIN links.overrides
                  /\ links.merges[k] = Link("go", k)

\* C20 witness: the override table is the part of pathsToOverride(19, FALSE)
\* for the directories of the trees; both trees have crypto/crypto.go, and
\* only Go has crypto/internal/boring.go.  The map links crypto.go and
\* crypto/rand from TinyGo and boring.go from Go.
C20_Witness ==
    /\ links.state = "done"
    /\ links.overrides = [d \in OverrideDirs |-> pathsToOverride(19, FALSE)[d]]
    /\ links.tinygo[<<"crypto", "crypto.go">>] = "file"
    /\ links.go[<<"crypto", "crypto.go">>] = "file"
    /\ links.go[<<"crypto", "rand">>] = "dir"
    /\ links.tinygo[<<"crypto", "internal", "boring.go">>] = "none"
    /\ links.go[<<"crypto", "internal", "boring.go">>] = "file"
    /\ FileLinksIn(<<"crypto">>) = {<<"src", "crypto", "crypto.go">>}
    /\ links.merges[<<"src", "crypto", "crypto.go">>] = Link("tinygo", <<"src", "crypto", "crypto.go">>)
    /\ links.merges[<<"src", "crypto", "rand">>].root = "tinygo"
    /\ links.merges[<<"src", "crypto", "internal", "boring.go">>].root = "go"

C22_OneWrapper ==
    /\ \A i \in 1..Len(functions) :
          functions[i].cls = "wrapper" =>
              /\ \A j \in 1..Len(functions) : functions[j].name = functions[i].name => j = i
              /\ functions[i].defined
              /\ Underlying(functions[i].recv).k \notin {"Pointer", "Chan", "Map"}
              /\ functions[i].body[1] = [op |-> "unpack", param |-> 0,
                                         typ |-> functions[i].recv, dst |-> "receiverValue"]
              /\ Len(functions[i].body[2].args) = 1 + Len(functions[i].sig.params)
              /\ functions[i].name = functions[i].body[2].fn \o "$invoke"
    /\ \A g \in 1..Len(globals) :
          globals[g].cls = "methodset" =>
              \A j \in 1..Len(MethodSet(globals[g].typ)) :
                  LET fn == MethodValue(globals[g].typ, MethodSet(globals[g].typ)[j])
                      made == {i \in 1..Len(functions) :
                                    functions[i].name = fn.linkName \o "$invoke"}
                  IN IF Underlying(globals[g].typ).k \in {"Pointer", "Chan", "Map"}
                     THEN globals[g].init[3].fns[j] = fn.linkName /\ made = {}
                     ELSE /\ globals[g].init[3].fns[j] = fn.linkName \o "$invoke"
                          /\ Cardinality(made) = 1
    /\ wrun.state = "made" =>
          IF Underlying(wrun.fn.recv).k \in {"Pointer", "Chan", "Map"}
          THEN wrun.val = wrun.fn.linkName /\ wrun.after = 0
          ELSE /\ wrun.val = wrun.fn.linkName \o "$invoke"
               /\ wrun.after = 1 /\ wrun.before \in {0, 1}

\* C22: the wrapper table holds the raw function of a method whose receiver
\* is a single-word pointer, and no fn$invoke is ever added for it; for any
\* other receiver exactly one defined function fn$invoke(opaque pointer,
\* other parameters) is created on first demand, and every later request
\* returns that function without creating another: no step removes or
\* changes a function of the module.
C22_WrapperDerivation ==
    /\ []C22_OneWrapper
    /\ [][/\ Len(functions') >= Len(functions)
          /\ \A i \in 1..Len(functions) : functions'[i] = functions[i]]_vars

\* C22 witness: the wrapper of a method was requested when the module had
\* it already, after the method set of its receiver type was made.
C22_Witness ==
    /\ wrun.state = "made" /\ wrun.before = 1 /\ wrun.after = 1
    /\ \E g \in 1..Len(globals) : globals[g].cls = "methodset" /\ globals[g].typ = wrun.fn.recv

\* What rawField(i - 1) returns for the descriptor at address t is field i
\* of the struct type u: its name, its tag, whether it is embedded, the
\* descriptor of its type, and an empty PkgPath exactly when it is exported.
FieldRoundTrip(t, u, i) ==
    LET f == rawField(globals, t, i - 1) IN
    /\ DOMAIN f = {"Name", "PkgPath", "Type", "Tag", "Anonymous"}
    /\ f.Name = u.fields[i].name
    /\ f.Tag = u.fields[i].tag
    /\ f.Anonymous = u.fields[i].embedded
    /\ f.Type = TypeCodeResult(u.fields[i].typ)
    /\ (f.PkgPath = "") <=> IsExported(u.fields[i].name)

\* C23: once the module is complete, rawField(i) on the descriptor of every
\* struct type, named or not, returns for every field the Name, the Tag and
\* the Anonymous flag of the field and an empty PkgPath exactly when the
\* field is exported; the name is what precedes the first NUL byte, with or
\* without a tag after it.
C23_RawFieldRoundTrip ==
    Idle =>
        \A d \in 1..Len(globals) :
            (globals[d].cls = "descriptor" /\ Underlying(globals[d].typ).k = "Struct") =>
                \A i \in 1..Len(Underlying(globals[d].typ).fields) :
                    FieldRoundTrip(TypeCodeResult(globals[d].typ),
                                   Underlying(globals[d].typ), i)

\* The same for the fields whose tag holds no NUL byte.
RawFieldRoundTripNoNul ==
    Idle =>
        \A d \in 1..Len(globals) :
            (globals[d].cls = "descriptor" /\ Underlying(globals[d].typ).k = "Struct") =>
                \A i \in 1..Len(Underlying(globals[d].typ).fields) :
                    Underlying(globals[d].typ) # StructNul =>
                        FieldRoundTrip(TypeCodeResult(globals[d].typ),
                                       Underlying(globals[d].typ), i)

\* The descriptor global of typ is in the module and initialised.
Emitted(typ) ==
    ~IsNil(TypeCodeGlobal(globals, typ)) /\ TypeCodeGlobal(globals, typ).hasInit

\* C24: once the module is complete, the runtime reads from every descriptor
\* the slots the compiler wrote: underlying() of a named type is the
\* descriptor of its underlying type and of any other type the descriptor
\* itself; Elem() of a pointer, chan, slice or array type (named or not) is
\* the descriptor of its element type; Len() of an array type is its length
\* and NumField() of a struct type its number of fields.
C24_SlotsAgree ==
    Idle =>
        \A d \in 1..Len(globals) :
            globals[d].cls = "descriptor" =>
                LET typ == globals[d].typ
                    u == Underlying(typ)
                    t == TypeCodeResult(typ)
                IN /\ underlying(globals, t) = TypeCodeResult(u)
                   /\ typ.k # "Named" => underlying(globals, t) = t
                   /\ u.k \in {"Pointer", "Chan", "Slice", "Array"} =>
                        elem(globals, t) = TypeCodeResult(u.elem)
                   /\ u.k = "Array" => rawTypeLen(globals, t) = [int |-> u.len]
                   /\ u.k = "Struct" => NumField(globals, t) = [int |-> Len(u.fields)]

\* C24 witness: the module is complete and has the descriptors of the named
\* struct type T (with a method set), of *T and of [MaxArrayLen]uint8, and
\* the runtime reads 2 fields, T, MaxArrayLen and uint8 from them.
C24_Witness ==
    /\ Idle
    /\ Emitted(TT) /\ Emitted(Array(MaxArrayLen, TUint8))
    /\ NumField(globals, TypeCodeResult(TT)) = [int |-> 2]
    /\ underlying(globals, TypeCodeResult(TT)) = TypeCodeResult(StructXY)
    /\ elem(globals, TypeCodeResult(Pointer(TT))) = TypeCodeResult(TT)
    /\ rawTypeLen(globals, TypeCodeResult(Array(MaxArrayLen, TUint8))) = [int |-> MaxArrayLen]
    /\ elem(globals, TypeCodeResult(Array(MaxArrayLen, TUint8))) = TypeCodeResult(TUint8)

CompleteGoroot(files, k) ==
    /\ \A dir \in DOMAIN cache.overrides : cache.overrides[dir] => <<"src">> \o dir \in files
    /\ \A dst \in DOMAIN k.merges : dst \in files

\* C26 (state part): a call that lost the rename race returned the cached
\* directory and no error; when a call has returned, with the directory,
\* with an error or after a lost race, no temporary directory that it
\* created exists; and the cached directory, when it exists, is complete.
C26_Returned ==
    cache.state = "running" =>
        /\ \A c \in DOMAIN cache.call :
              cache.call[c].pc = "done" =>
                  /\ \A t \in cache.call[c].made : t \notin DOMAIN cache.fs
                  /\ cache.call[c].lost =>
                        cache.call[c].path = CachedGorootName /\ cache.call[c].err = ""
                  /\ cache.call[c].err = "" =>
                        cache.call[c].path = CachedGorootName
                        /\ CachedGorootName \in DOMAIN cache.fs
        /\ CachedGorootName \in DOMAIN cache.fs =>
              \A c \in DOMAIN cache.call :
                  cache.call[c].pc # "start" =>
                      CompleteGoroot(cache.fs[CachedGorootName],
                                     [merges |-> listGorootMergeLinks(
                                        cache.go, cache.tinygo, cache.overrides).merges])

\* C26: the directory goroot-<hash> comes into existence only by the rename
\* of a temporary directory that is complete, and is not changed afterwards;
\* a call that lost the rename race returns the directory that exists
\* instead of an error; every temporary directory a call created is removed
\* by the time the call returns.
C26_Publication ==
    /\ []C26_Returned
    /\ [][cache.state = "running" =>
            /\ (CachedGorootName \in DOMAIN cache.fs) =>
                  /\ CachedGorootName \in DOMAIN cache'.fs
                  /\ cache'.fs[CachedGorootName] = cache.fs[CachedGorootName]
            /\ (CachedGorootName \notin DOMAIN cache.fs /\ CachedGorootName \in DOMAIN cache'.fs) =>
                  \E c \in DOMAIN cache.call :
                      /\ cache.call[c].pc = "build" /\ cache'.call[c].pc = "remove"
                      /\ cache.call[c].tmp \in DOMAIN cache.fs
                      /\ cache.call[c].tmp \notin DOMAIN cache'.fs
                      /\ cache'.fs[CachedGorootName] = cache.fs[cache.call[c].tmp]
                      /\ CompleteGoroot(cache.fs[cache.call[c].tmp], cache.call[c])]_vars

\* C26 witness: two calls of two processes have returned; both made a
\* temporary directory, one renamed its directory into place and the other
\* lost the race and returned the same directory; only the cached directory
\* is left.
C26_Witness ==
    /\ cache.state = "running" /\ DOMAIN cache.call = {1, 2}
    /\ \A c \in {1, 2} :
          /\ cache.call[c].pc = "done" /\ cache.call[c].made = {TempName(c)}
          /\ cache.call[c].path = CachedGorootName /\ cache.call[c].err = ""
    /\ ~cache.call[1].lost /\ cache.call[2].lost
    /\ DOMAIN cache.fs = {CachedGorootName}
    /\ <<"src", "crypto", "crypto.go">> \in cache.fs[CachedGorootName]

\* C27: for every table that pathsToOverride returns, every os.Mkdir of the
\* sorted list finds the parent of its directory created, and once the
\* directories are created every link destination below src has its parent
\* directory, whatever links were mirrored before it: no call ends because
\* a directory is missing or exists.
C27_ParentsFirst ==
    cache.state = "running" =>
        \A c \in DOMAIN cache.call :
            /\ cache.call[c].err \notin {"ENOENT", "EEXIST"}
            /\ (cache.call[c].pc = "build" /\ cache.call[c].dirs # <<>>) =>
                  /\ SubSeq(Head(cache.call[c].dirs), 1, Len(Head(cache.call[c].dirs)) - 1)
                        \in cache.fs[cache.call[c].tmp]
                  /\ Head(cache.call[c].dirs) \notin cache.fs[cache.call[c].tmp]
            /\ (cache.call[c].pc = "build" /\ cache.call[c].dirs = <<>>) =>
                  \A dst \in cache.call[c].todo :
                      dst[1] = "src" =>
                          SubSeq(dst, 1, Len(dst) - 1) \in cache.fs[cache.call[c].tmp]

\* C27 witness: the call with the table of Go 1.19 and the syscall package
\* has returned the cached directory, which has src/crypto/internal/boring,
\* the link src/crypto/internal/boring/sig and src/syscall.
C27_Witness ==
    /\ cache.state = "running"
    /\ cache.overrides = pathsToOverride(19, TRUE)
    /\ cache.call[1].pc = "done" /\ cache.call[1].err = ""
    /\ CachedGorootName \in DOMAIN cache.fs
    /\ {<<"src">>, <<"src", "crypto", "internal", "boring">>,
        <<"src", "crypto", "internal", "boring", "sig">>, <<"src", "syscall">>,
        <<"src", "crypto", "rand">>, <<"bin">>}
          \subseteq cache.fs[CachedGorootName]

-----------------------------------------------------------------------------
(* The USB device *)

\* The descriptor types and string indexes for which sendDescriptor has a
\* descriptor to send, for the device u.
KnownDescriptor(u, setup) ==
    \/ setup.WValueH \in {"TypeDevice", "TypeConfiguration"}
    \/ setup.WValueH = "TypeString" /\ setup.WValueL \in {0, IPRODUCT, IMANUFACTURER}
    \/ setup.WValueH = "TypeHIDReport" /\ setup.WIndex \in HIDIndexes(u.usbDescriptor)

\* C28: every GET_DESCRIPTOR request is answered with exactly one packet on
\* endpoint 0: a data packet for a known descriptor type or string index, a
\* zero-length packet for everything else (a descriptor type that is not
\* known, the device qualifier, the HID report of an interface that has
\* none, the serial number, any other string index).
C28_OneResponse ==
    (usb.state = "on" /\ usb.setup.BRequest = "GET_DESCRIPTOR") =>
        /\ Len(usb.sent) = 1
        /\ usb.sent[1].ep = 0
        /\ usb.sent[1].from = "zlp" <=> ~KnownDescriptor(usb, usb.setup)

\* The package variables of the device, without the record of the request.
DeviceState(u) == [NoRequest(u) EXCEPT !.host = InitUSBDevice.host]

\* The answers to GET_CONFIGURATION and GET_INTERFACE, and
\* InitEndpointComplete, against what the host has sent.
C29_Returned ==
    usb.state = "on" =>
        /\ usb.setup.BRequest = "GET_CONFIGURATION" =>
               usb.sent = <<Packet(0, "buffer", "", "", <<usb.host.configuration>>)>>
        /\ usb.setup.BRequest = "GET_INTERFACE" =>
               usb.sent = <<Packet(0, "buffer", "", "", <<usb.host.interface>>)>>
        /\ usb.InitEndpointComplete = usb.host.configured

\* C29: GET_CONFIGURATION sends the value of the last SET_CONFIGURATION to
\* the device (0 when there was none) and GET_INTERFACE that of the last
\* SET_INTERFACE; a SET_CONFIGURATION to another recipient returns false,
\* sends nothing and changes nothing; InitEndpointComplete is false until
\* the first SET_CONFIGURATION to the device and never false again.
C29_RoundTrip ==
    /\ []C29_Returned
    /\ [][/\ usb.state = "on"
             => /\ (usb'.setup.BRequest = "SET_CONFIGURATION"
                     /\ usb'.setup.Recipient # "REQUEST_DEVICE")
                      => /\ usb'.ret = FALSE
                         /\ usb'.sent = <<>>
                         /\ DeviceState(usb') = DeviceState(usb)
                         /\ usb'.host = usb.host
                /\ usb.InitEndpointComplete => usb'.InitEndpointComplete]_vars

C29_Witness ==
    /\ usb.state = "on"
    /\ usb.setup.BRequest = "GET_CONFIGURATION"
    /\ usb.host.configuration = 2
    /\ usb.usbSetInterface = 1
    /\ usb.InitEndpointComplete
    /\ usb.sent = <<Packet(0, "buffer", "", "", <<2>>)>>

\* C30: once classes are enabled, the answer to GET_DESCRIPTOR for the
\* configuration or for a HID report comes from the descriptor set that the
\* enabled classes select (HID, else MIDI, else Joystick, else CDC), which
\* is the set of the device descriptor, whether or not the device
\* descriptor was requested before.
C30_SelectedSet ==
    (usb.state = "on" /\ usb.setup.BRequest = "GET_DESCRIPTOR"
        /\ usb.usbDescriptorConfig # {"CDC"}) =>
        \E set \in {SelectDescriptor(usb.usbDescriptorConfig)} :
            /\ usb.setup.WValueH = "TypeConfiguration" =>
                   usb.sent = <<DescriptorPacket(set, "Configuration")>>
            /\ usb.setup.WValueH = "TypeHIDReport" =>
                   usb.sent = IF usb.setup.WIndex \in HIDIndexes(set)
                              THEN <<Packet(0, "descriptor", set, "HID", <<usb.setup.WIndex>>)>>
                              ELSE <<Zlp>>
====
